---- MODULE Spec2Model ----
(***************************************************************************)
(* Model of the census / BEA data pipeline of 2025-autumn-bfi:             *)
(*   gt_utilities/get_census_bea_data.py      (downloads and readers)      *)
(*   gt_utilities/clean_census_bea_data.py    (cleaners)                   *)
(*   gt_utilities/merge_census_bea_data.py    (joins)                      *)
(*   gt_utilities/build_census_bea_resources.py (master table)             *)
(*   gt_utilities/census_bea_pipeline.py      (run_full_pipeline)          *)
(*   gt_utilities/dataprep_utils.py           (geospatial stage)           *)
(*                                                                         *)
(* A table is a record [cols, rows]: the sequence of its column names and  *)
(* the sequence of its rows, each row a record with one field per column.  *)
(* A geographic code read from a file is its text, a sequence of one-      *)
(* character strings; numbers are naturals and the missing number (NaN,    *)
(* pandas <NA>) is NA.                                                     *)
(*                                                                         *)
(* Four specifications share the variables:                                *)
(*   Spec      the master-table flow over drawn tables                     *)
(*   SpecPop   the population sections of run_full_pipeline                *)
(*   SpecPipe  run_full_pipeline with its downloads and files, run twice   *)
(*   SpecGeo   build_combined_geojson                                      *)
(***************************************************************************)
EXTENDS Integers, Sequences, FiniteSets, TLC

VARIABLES
    pc,              \* position of the data flow being run
    bfi_df,          \* base employment table (raw, then cleaned in place)
    msa_county,      \* CBSA-county crosswalk (raw, then cleaned in place)
    labor,           \* raw industry files: labor[1980], labor[2022]
    all_ind,         \* result of combine_industries
    final_pop_1980,  \* 1980 population table handed to build_bfi_pop_labor
    min_df_2022,     \* 2022 population table handed to build_bfi_pop_labor
    merged_all_ind,  \* result of merge_industry_with_msa
    new_bfi_df,      \* master table, result of build_bfi_pop_labor
    pop_1980,        \* 1980 population rows (pop_1980.csv, then cleaned)
    msa_pop_1980,    \* result of merge_pop_1980_with_cbsa
    merged_pop_1980, \* result of merge_pop_1980_with_bfi
    pop_1980_agg,    \* result of aggregate_pop_1980
    pop_2022,        \* 2022 population rows (get_pop_2022, then cleaned)
    merged_pop_2022, \* result of merge_pop_2022_with_bfi
    disk,            \* the files of DATA_DIR and RAW_DATA_DIR: name -> content
    dl,              \* outcome of each download of the current run
    stale,           \* raw files that were on disk when the current run began
    run,             \* number of the current call of run_full_pipeline
    invoked,         \* the stages the current run has called, in order
    none_at,         \* the stage of the current run that returned None, or ""
    ret,             \* what the current run returned: "running" until it does
    df_long,         \* the metro13 values of the employment data (dataprep)
    msa_path,        \* the CBSA GeoJSON file: its features
    states_path,     \* the states GeoJSON file: its features
    clipped_states_path,  \* the temporary clipped-states GeoJSON file
    combined_path,   \* the combined GeoJSON file
    shp_dirs,        \* the features of the extracted CBSA and state shapefiles
    clipped_states_keep,  \* argument clipped_states_keep
    geo_run,         \* number of the current run of the geospatial stage
    geo_failed,      \* the steps of the current run that failed
    geo_err,         \* an exception of the current run reached the caller
    geo_wrote,       \* the current run wrote the combined GeoJSON file
    prev_combined,   \* combined file of the preceding call on the same inputs
    msa_tables_1980, \* make_msa_tables(final_pop_1980): entries in dict order
    msa_tables_2022, \* make_msa_tables(min_df_2022): entries in dict order
    labor_table,     \* build_msa_industry_tables(merged_all_ind): title -> table
    gdp_data,        \* the JSON answer of the BEA API, None for a failed request
    gdp_df,          \* what download_bea_gdp_percent_change returned
    gdp_file,        \* the GDP output file
    gdp_merged,      \* what merge_healthcare_with_gdp returned
    calls            \* per cleaner: the table passed, that table after the
                     \* call, and what the call returned

\* the tables of the population sections of run_full_pipeline
popvars == <<pop_1980, msa_pop_1980, merged_pop_1980, pop_1980_agg, pop_2022,
             merged_pop_2022>>

\* the files and the bookkeeping of the calls of run_full_pipeline
pipevars == <<disk, dl, stale, run, invoked, none_at, ret>>

\* the inputs and the files of the geospatial stage
geovars == <<df_long, msa_path, states_path, clipped_states_path, combined_path,
             shp_dirs, clipped_states_keep, geo_run, geo_failed, geo_err,
             geo_wrote, prev_combined>>

\* the proportion tables run_full_pipeline returns
tabvars == <<msa_tables_1980, msa_tables_2022, labor_table>>

\* the answer, the result and the file of download_bea_gdp_percent_change
gdpvars == <<gdp_data, gdp_df, gdp_file, gdp_merged>>

\* the tables of run_full_pipeline
datavars == <<bfi_df, msa_county, labor, all_ind, final_pop_1980, min_df_2022,
              merged_all_ind, new_bfi_df, popvars, tabvars, gdpvars, calls>>

\* no proportion table has been built
NoTables ==
    /\ msa_tables_1980 = <<>>
    /\ msa_tables_2022 = <<>>
    /\ labor_table = <<>>

vars == <<pc, datavars, pipevars, geovars>>

(***************************************************************************)
(* Values                                                                  *)
(***************************************************************************)
\* the missing number: NaN of to_numeric(errors="coerce"), <NA> of Int64
NA == 0 - 1

\* a null cell of a column filled by a left join that found no match
Null == 0 - 2

\* the value of a stage that failed (Python None), and of a table not built yet
None == [none |-> TRUE]

DigitChars == <<"0", "1", "2", "3", "4", "5", "6", "7", "8", "9">>

DigitSet == {DigitChars[i] : i \in 1..10}

DigitVal(c) == (CHOOSE i \in 1..10 : DigitChars[i] = c) - 1

\* the text pandas writes for a missing Int64 value
NAStr == <<"<", "N", "A", ">">>

(***************************************************************************)
(* Key normalisation: pd.to_numeric(errors="coerce").astype("Int64")       *)
(*                      .astype(str).str.zfill(width)                      *)
(***************************************************************************)
IsNumeric(s) == Len(s) > 0 /\ \A i \in 1..Len(s) : s[i] \in DigitSet

RECURSIVE ParseDigits(_)
ParseDigits(s) ==
    IF Len(s) = 0 THEN 0
    ELSE 10 * ParseDigits(SubSeq(s, 1, Len(s) - 1)) + DigitVal(s[Len(s)])

\* pd.to_numeric(column, errors="coerce") on one cell
to_numeric(s) == IF IsNumeric(s) THEN ParseDigits(s) ELSE NA

RECURSIVE DigitsOf(_)
DigitsOf(n) ==
    IF n < 10 THEN <<DigitChars[n + 1]>>
    ELSE DigitsOf(n \div 10) \o <<DigitChars[(n % 10) + 1]>>

\* .astype("Int64").astype(str) on one cell
astype_str(n) == IF n = NA THEN NAStr ELSE DigitsOf(n)

RECURSIVE zfill(_, _)
zfill(s, width) == IF Len(s) >= width THEN s ELSE zfill(<<"0">> \o s, width)

\* the whole chain the cleaners apply to a geographic code
FormatCode(s, width) == zfill(astype_str(to_numeric(s)), width)

(***************************************************************************)
(* Table helpers                                                           *)
(***************************************************************************)
RECURSIVE Flatten(_)
Flatten(ss) == IF Len(ss) = 0 THEN <<>> ELSE Head(ss) \o Flatten(Tail(ss))

MapSeq(s, Op(_)) == [i \in 1..Len(s) |-> Op(s[i])]

Range(s) == {s[i] : i \in 1..Len(s)}

\* DataFrame.drop(columns=cols) on one row
DropCols(r, cols) == [c \in (DOMAIN r) \ cols |-> r[c]]

\* DataFrame[cols] on one row
KeepCols(r, cols) == [c \in cols |-> r[c]]

\* the sub-sequences of cands with at most n rows, in the order of cands
RECURSIVE Pick(_, _)
Pick(cands, n) ==
    IF Len(cands) = 0 \/ n = 0 THEN {<<>>}
    ELSE Pick(Tail(cands), n)
         \cup {<<Head(cands)>> \o t : t \in Pick(Tail(cands), n - 1)}

(***************************************************************************)
(* pandas operations on tables.  cols is the sequence of the column names  *)
(* in the order of the DataFrame.                                          *)
(***************************************************************************)
Table(cols, rows) == [cols |-> cols, rows |-> rows]

\* the column names of a table as a set: `c in df.columns`
Columns(df) == Range(df.cols)

SeqMinus(s, set) == SelectSeq(s, LAMBDA c : c \notin set)

\* df[col] = f(row): set one column, appended last when it is new
SetCol(df, col, Val(_)) ==
    LET cs == IF col \in Columns(df) THEN df.cols ELSE Append(df.cols, col)
    IN  Table(cs, MapSeq(df.rows, LAMBDA r : [c \in Range(cs) |->
                                        IF c = col THEN Val(r) ELSE r[c]]))

\* DataFrame.query / boolean indexing
Filter(df, Keep(_)) == Table(df.cols, SelectSeq(df.rows, Keep))

\* DataFrame[cols] for a list cols; the caller has checked that they exist
Project(df, cols) ==
    Table(cols, MapSeq(df.rows, LAMBDA r : KeepCols(r, Range(cols))))

\* DataFrame.drop(columns=cols, errors="ignore")
Drop(df, cols) ==
    Table(SeqMinus(df.cols, cols), MapSeq(df.rows, LAMBDA r : DropCols(r, cols)))

\* the columns of the pipeline's tables that hold text, not numbers
StringCols == {"FIPS State and County Codes", "Race/Sex Indicator", "fips",
               "fipst", "fipscounty", "cbsa", "cbsacode", "cbsaname", "metro13",
               "metro_title", "CBSA", "NAME", "LSAD", "area_fips", "own_title"}

\* those of them that hold names and labels; the others hold codes
TextCols == {"Race/Sex Indicator", "cbsaname", "metro_title", "NAME", "LSAD",
             "own_title"}

\* the null cell (NaN) of a column: of a label, of a code, of a number
NullText == "nan"

NullCode == <<>>

NullOf(c) ==
    IF c \in TextCols THEN NullText
    ELSE IF c \in StringCols THEN NullCode
    ELSE Null

\* a row widened to the columns cols, the new cells null
Widen(r, cols) == [c \in cols |-> IF c \in DOMAIN r THEN r[c] ELSE NullOf(c)]

\* the columns of a followed by the columns only b has
UnionCols(a, b) == a.cols \o SeqMinus(b.cols, Columns(a))

\* pd.concat([a, b], ignore_index=True): union of the columns, null where absent
Concat(a, b) ==
    Table(UnionCols(a, b),
          MapSeq(a.rows, LAMBDA r : Widen(r, Range(UnionCols(a, b))))
          \o MapSeq(b.rows, LAMBDA r : Widen(r, Range(UnionCols(a, b)))))

\* the rows of right whose key cells equal those of the left row l
Matches(l, right, left_on, right_on) ==
    SelectSeq(right.rows,
              LAMBDA r : \A k \in 1..Len(left_on) : r[right_on[k]] = l[left_on[k]])

\* left.merge(right, left_on=..., right_on=..., how=...) for how in
\* {"inner", "left"}: one output row per (left row, matching right row), in
\* the order of the left rows; how="left" keeps an unmatched left row with
\* null cells.  The caller has checked that the key columns exist.
Merge(left, right, left_on, right_on, how) ==
    LET cols == UnionCols(left, right)
        RowsOf(l) ==
            LET m == Matches(l, right, left_on, right_on)
            IN  IF Len(m) > 0 THEN MapSeq(m, LAMBDA r : l @@ r)
                ELSE IF how = "left" THEN <<Widen(l, Range(cols))>>
                ELSE <<>>
    IN  Table(cols, Flatten(MapSeq(left.rows, RowsOf)))

HasKeys(df, keys) == Range(keys) \subseteq Columns(df)

(***************************************************************************)
(* clean_census_bea_data.py                                                *)
(***************************************************************************)
clean_bfi(df) ==
    IF "metro13" \notin Columns(df) THEN None
    ELSE SetCol(df, "metro13", LAMBDA r : FormatCode(r.metro13, 5))

clean_cbsa_county_crosswalk(df) ==
    IF ~({"fipst", "fipscounty", "cbsa"} \subseteq Columns(df)) THEN None
    ELSE SetCol(SetCol(df, "fips", LAMBDA r : FormatCode(r.fipscounty, 4)),
                "cbsacode", LAMBDA r : FormatCode(r.cbsa, 5))

\* the sum of the cells of row r in the columns cols: DataFrame.sum(axis=1)
RECURSIVE SumCols(_, _)
SumCols(r, cols) ==
    IF Len(cols) = 0 THEN 0 ELSE r[Head(cols)] + SumCols(r, Tail(cols))

clean_pop_1980(pop) ==
    IF ~({"Year of Estimate", "FIPS State and County Codes"}
            \subseteq Columns(pop))
    THEN None
    ELSE
      LET only_1980 == Filter(pop, LAMBDA r : r["Year of Estimate"] = 1980)
          cols_to_sum == SubSeq(only_1980.cols, 4, Len(only_1980.cols))
          with_total == SetCol(only_1980, "Total Population",
                               LAMBDA r : SumCols(r, cols_to_sum))
      IN  SetCol(with_total, "FIPS State and County Codes",
                 LAMBDA r : FormatCode(r["FIPS State and County Codes"], 5))

RECURSIVE Distinct(_)
Distinct(s) ==
    IF Len(s) = 0 THEN <<>>
    ELSE <<Head(s)>> \o Distinct(SelectSeq(Tail(s), LAMBDA x : x # Head(s)))

RECURSIVE SumSeq(_)
SumSeq(s) == IF Len(s) = 0 THEN 0 ELSE Head(s) + SumSeq(Tail(s))

\* df.groupby(by, as_index=False).sum(numeric_only=True): one row per group,
\* the key columns first, then the sums of the numeric columns (the groups
\* stand in the order of their first row)
GroupBySum(df, by) ==
    LET num == SelectSeq(df.cols, LAMBDA c : c \notin StringCols /\ c \notin Range(by))
        keys == Distinct(MapSeq(df.rows, LAMBDA r : KeepCols(r, Range(by))))
        Members(k) == SelectSeq(df.rows, LAMBDA r : KeepCols(r, Range(by)) = k)
        Agg(k) == [c \in Range(by) \cup Range(num) |->
                      IF c \in Range(by) THEN k[c]
                      ELSE SumSeq(MapSeq(Members(k), LAMBDA r : r[c]))]
    IN  Table(by \o num, MapSeq(keys, Agg))

group_cols == <<"Year of Estimate", "Race/Sex Indicator", "metro13", "metro_title">>

\* the county rows handed on without the groupby
aggregate_not_summed(merged) ==
    IF ~HasKeys(Drop(merged, {"fips"}), group_cols) THEN None
    ELSE Drop(merged, {"fips"})

aggregate_pop_1980(merged) ==
    IF ~HasKeys(Drop(merged, {"fips"}), group_cols) THEN None
    ELSE GroupBySum(Drop(merged, {"fips"}), group_cols)

id_vars == <<"Year of Estimate", "metro13", "metro_title">>

\* ["Total Population"] + pop_1980_agg.columns[3:-4].to_list()
age_groups_with_total(agg) ==
    <<"Total Population">> \o SubSeq(agg.cols, 4, Len(agg.cols) - 4)

\* the race/sex indicator texts of pop_1980.csv and their str.lower()
Indicators == <<"White male", "White female", "Black male", "Black female",
                "Other races male", "Other races female">>

Lowered == <<"white male", "white female", "black male", "black female",
             "other races male", "other races female">>

\* .astype(str).str.strip().str.lower() on one indicator
str_lower(s) ==
    IF \E i \in 1..Len(Indicators) : Indicators[i] = s
    THEN Lowered[CHOOSE i \in 1..Len(Indicators) : Indicators[i] = s]
    ELSE s

\* `"male" in s` and `"female" in s` in place of str.endswith: "female"
\* holds "male"
contains(s, suffix) ==
    \/ suffix = " male" /\ s \in Range(Lowered)
    \/ suffix = " female" /\ s \in {Lowered[2], Lowered[4], Lowered[6]}

\* str.endswith(" male") and str.endswith(" female") on a lowered indicator
endswith(s, suffix) ==
    \/ suffix = " male" /\ s \in {Lowered[1], Lowered[3], Lowered[5]}
    \/ suffix = " female" /\ s \in {Lowered[2], Lowered[4], Lowered[6]}

\* the position a dict comprehension over enumerate(names) keeps for name
age_id(names, name) ==
    (CHOOSE i \in 1..Len(names) :
        names[i] = name /\ \A j \in (i + 1)..Len(names) : names[j] # name) - 1

\* melt to long, add the MSA / male / female totals, pivot to wide.  melt
\* takes a value column that is also an id column as id only.  The rows and
\* the indicator columns stand in the order of their first appearance
\* (pivot_table sorts them; no stage reads them by position).
transform_pop_1980_to_final(agg) ==
    LET ages == age_groups_with_total(agg)
        keep == id_vars \o <<"Race/Sex Indicator">>
        index == id_vars \o <<"AGEGRP">>
    IN
    IF ~((Range(keep) \cup Range(ages)) \subseteq Columns(agg)) THEN None
    ELSE
      LET value_vars == Distinct(SelectSeq(ages, LAMBDA c : c \notin Range(keep)))
          LongRow(r, v) ==
              [c \in Range(keep) \cup {"AGEGRP", "Population"} |->
                  IF c = "AGEGRP" THEN v
                  ELSE IF c = "Population" THEN r[v]
                  ELSE IF c = "Race/Sex Indicator" THEN str_lower(r[c])
                  ELSE r[c]]
          RowsFor(v) == MapSeq(agg.rows, LAMBDA r : LongRow(r, v))
          long_df == Table(keep \o <<"AGEGRP", "Population">>,
                           Flatten(MapSeq(value_vars, RowsFor)))
          Totals(df, name) ==
              SetCol(GroupBySum(Project(df, index \o <<"Population">>), index),
                     "Race/Sex Indicator", LAMBDA r : name)
          msa_totals == Totals(long_df, "MSA Population")
          total_male ==
              Totals(Filter(long_df,
                            LAMBDA r : endswith(r["Race/Sex Indicator"], " male")),
                     "Total male")
          total_female ==
              Totals(Filter(long_df,
                            LAMBDA r : endswith(r["Race/Sex Indicator"], " female")),
                     "Total female")
          long_augmented ==
              Concat(Concat(Concat(long_df, msa_totals), total_male), total_female)
          inds == Distinct(MapSeq(long_augmented.rows,
                                  LAMBDA r : r["Race/Sex Indicator"]))
          idx == Distinct(MapSeq(long_augmented.rows,
                                 LAMBDA r : KeepCols(r, Range(index))))
          Cell(k, i) ==
              LET m == SelectSeq(long_augmented.rows,
                                 LAMBDA r : /\ KeepCols(r, Range(index)) = k
                                            /\ r["Race/Sex Indicator"] = i)
              IN  IF Len(m) = 0 THEN Null
                  ELSE SumSeq(MapSeq(m, LAMBDA r : r.Population))
          WideRow(k) ==
              [c \in Range(index) \cup Range(inds) |->
                  IF c = "AGEGRP" THEN age_id(ages, k.AGEGRP)
                  ELSE IF c \in Range(index) THEN k[c]
                  ELSE Cell(k, c)]
      IN  Table(index \o inds, MapSeq(idx, WideRow))

rename_map ==
    ("MSA Population" :> "TOT_POP") @@ ("Total male" :> "TOT_MALE")
    @@ ("Total female" :> "TOT_FEMALE") @@ ("Black female" :> "BAC_FEMALE")
    @@ ("Black male" :> "BAC_MALE") @@ ("Other races female" :> "OTHER_FEMALE")
    @@ ("Other races male" :> "OTHER_MALE") @@ ("White female" :> "WAC_FEMALE")
    @@ ("White male" :> "WAC_MALE") @@ ("Year of Estimate" :> "year")

\* DataFrame.rename(columns=rename_map) on one column name
Renamed(c) == IF c \in DOMAIN rename_map THEN rename_map[c] ELSE c

rename_pop_1980_columns(df) ==
    Table(MapSeq(df.cols, Renamed),
          MapSeq(df.rows,
                 LAMBDA r : [c \in {Renamed(x) : x \in DOMAIN r} |->
                                r[CHOOSE x \in DOMAIN r : Renamed(x) = c]]))

clean_pop_2022(pop2) ==
    IF "CBSA" \notin Columns(pop2) THEN None
    ELSE SetCol(pop2, "CBSA", LAMBDA r : FormatCode(r.CBSA, 5))

required_base_cols == <<"AGEGRP", "metro13", "metro_title", "TOT_POP", "TOT_MALE",
                        "TOT_FEMALE", "WAC_MALE", "WAC_FEMALE", "BAC_MALE",
                        "BAC_FEMALE">>

required_other_m == <<"IAC_MALE", "AAC_MALE", "NAC_MALE", "H_MALE">>

required_other_f == <<"IAC_FEMALE", "AAC_FEMALE", "NAC_FEMALE", "H_FEMALE">>

\* organize_pop_2022_minimal without the query AGEGRP == 0
organize_all_ages(merged) ==
    IF ~(Range(required_base_cols \o required_other_m \o required_other_f)
            \subseteq Columns(merged))
    THEN None
    ELSE
      LET others == SetCol(SetCol(merged, "OTHER_MALE",
                                  LAMBDA r : SumCols(r, required_other_m)),
                           "OTHER_FEMALE",
                           LAMBDA r : SumCols(r, required_other_f))
      IN  Project(others, Tail(required_base_cols) \o <<"OTHER_MALE", "OTHER_FEMALE">>)

organize_pop_2022_minimal(merged) ==
    IF ~(Range(required_base_cols \o required_other_m \o required_other_f)
            \subseteq Columns(merged))
    THEN None
    ELSE
      LET total_age == Filter(merged, LAMBDA r : r.AGEGRP = 0)
          others == SetCol(SetCol(total_age, "OTHER_MALE",
                                  LAMBDA r : SumCols(r, required_other_m)),
                           "OTHER_FEMALE",
                           LAMBDA r : SumCols(r, required_other_f))
      IN  Project(others, Tail(required_base_cols) \o <<"OTHER_MALE", "OTHER_FEMALE">>)

\* the table passed to clean_bfi after the call: bfi_df["metro13"] = ...
\* assigns into the argument, which is the table returned
after_clean_bfi(df) ==
    IF clean_bfi(df) = None THEN df ELSE clean_bfi(df)

\* the table passed to clean_cbsa_county_crosswalk after the call:
\* msa_county["fips"] = ..., msa_county["cbsacode"] = ... on the argument
after_clean_cbsa_county_crosswalk(df) ==
    IF clean_cbsa_county_crosswalk(df) = None THEN df
    ELSE clean_cbsa_county_crosswalk(df)

\* the table passed to clean_pop_2022 after the call: pop2["CBSA"] = ...
after_clean_pop_2022(df) ==
    IF clean_pop_2022(df) = None THEN df ELSE clean_pop_2022(df)

\* clean_pop_1980 assigning into its argument
in_place_clean_pop_1980(df) ==
    IF clean_pop_1980(df) = None THEN df ELSE clean_pop_1980(df)

\* the table passed to clean_pop_1980 after the call: the function works on
\* pop.query(...).copy()
after_clean_pop_1980(df) == df

\* the table passed to organize_pop_2022_minimal after the call: the
\* function works on merged_pop_2022.query(...).copy()
after_organize_pop_2022_minimal(df) == df

(***************************************************************************)
(* build_census_bea_resources.py: make_msa_tables.  A percentage is kept   *)
(* in hundredths of a percent, the unit of round(2).                       *)
(***************************************************************************)
agg_cols == <<"TOT_POP", "TOT_MALE", "TOT_FEMALE", "WAC_MALE", "BAC_MALE",
              "OTHER_MALE", "WAC_FEMALE", "BAC_FEMALE", "OTHER_FEMALE">>

\* final_pop_df.groupby("metro_title", as_index=False)[agg_cols].sum()
msa_totals(df) ==
    GroupBySum(Project(df, <<"metro_title">> \o agg_cols), <<"metro_title">>)

\* row["TOT_MALE"] with no substitution
denominator_raw(total) == total

\* row["TOT_MALE"] if row["TOT_MALE"] > 0 else 1
denominator(total) == IF total > 0 THEN total ELSE 1

\* what a division by 0 leaves in a float cell: inf or nan
Undefined == 0 - 1

\* round to the nearest integer, a tie to the even one (numpy round)
RoundDiv(n, d) ==
    LET q == n \div d
        r == n % d
    IN  IF 2 * r < d THEN q
        ELSE IF 2 * r > d THEN q + 1
        ELSE IF q % 2 = 0 THEN q ELSE q + 1

\* round to the nearest integer, a tie to the even one, for either sign
RoundSigned(n, d) ==
    IF n >= 0 THEN RoundDiv(n, d) ELSE 0 - RoundDiv(0 - n, d)

\* NaN of a float cell, outside the values the drawn levels produce
NaN == 0 - 1000000

\* (part / t * 100).round(2), in hundredths of a percent
proportion(part, t) ==
    IF t = 0 THEN Undefined ELSE RoundDiv(part * 10000, t)

\* the 2x3 table of one metro
msa_table(row) ==
    LET t_male == denominator(row.TOT_MALE)
        t_female == denominator(row.TOT_FEMALE)
    IN  [msa |-> row.metro_title,
         Male |-> [White |-> proportion(row.WAC_MALE, t_male),
                   Black |-> proportion(row.BAC_MALE, t_male),
                   Other |-> proportion(row.OTHER_MALE, t_male)],
         Female |-> [White |-> proportion(row.WAC_FEMALE, t_female),
                     Black |-> proportion(row.BAC_FEMALE, t_female),
                     Other |-> proportion(row.OTHER_FEMALE, t_female)]]

\* the dict {metro_title: table} as the sequence of its entries; {} when a
\* column is missing
make_msa_tables(final_pop_df) ==
    IF ~(Range(agg_cols) \cup {"metro_title"} \subseteq Columns(final_pop_df))
    THEN <<>>
    ELSE MapSeq(msa_totals(final_pop_df).rows, msa_table)

(***************************************************************************)
(* get_census_bea_data.py: the downloads and the readers.  A file is the   *)
(* table pd.read_csv makes of it, or NoFile when it is not on disk.        *)
(***************************************************************************)
NoFile == [nofile |-> TRUE]

\* how a request ends: r.raise_for_status() passes, ReadTimeout, or another
\* RequestException (HTTP error, connection error)
Outcomes == {"ok", "timeout", "error"}

\* what the run records of a download
Status(o) == IF o = "ok" THEN "ok" ELSE "failed"

\* output_file.open("wb").write(r.content)
WriteFile(d, name, content) == [d EXCEPT ![name] = content]

\* a getter that saves the response body whether or not the request succeeded
get_census_pop_keep(d, o80, c80, o22, c22) ==
    WriteFile(WriteFile(d, "pop_1980.csv", c80), "pop_2022.csv", c22)

\* get_census_pop: the 1980 url, then the 2022 url; a ReadTimeout skips to
\* the next url, any other RequestException returns
get_census_pop(d, o80, c80, o22, c22) ==
    LET d1 == IF o80 = "ok" THEN WriteFile(d, "pop_1980.csv", c80) ELSE d
    IN  IF o80 = "error" THEN d1
        ELSE IF o22 = "ok" THEN WriteFile(d1, "pop_2022.csv", c22)
        ELSE d1

\* get_ubls_labor: the 1980 zip, then the 2022 zip; any RequestException
\* returns
get_ubls_labor(d, o80, c80, o22, c22) ==
    IF o80 # "ok" THEN d
    ELSE IF o22 # "ok" THEN WriteFile(d, "labor_1980.csv", c80)
    ELSE WriteFile(WriteFile(d, "labor_1980.csv", c80), "labor_2022.csv", c22)

get_uber_county_cbsa_crosswalk(d, o, c) ==
    IF o = "ok" THEN WriteFile(d, "cbsatocountycrosswalk.csv", c) ELSE d

\* pd.read_csv inside try / except Exception: return None
read_csv(file) == IF file = NoFile THEN None ELSE file

get_bfi(file) == read_csv(file)

\* read_csv, then pop.drop(0) unless the table is empty
get_pop_1980(file) ==
    IF file = NoFile THEN None
    ELSE IF Len(file.rows) > 0 THEN Table(file.cols, Tail(file.rows))
    ELSE file

get_cbsa_county_crosswalk(file) == read_csv(file)

\* read_csv, drop MDIV / LSAD / SUMLEV where present, keep YEAR == 4 and
\* drop YEAR when the column is there, otherwise go on with all rows
get_pop_2022(file) ==
    IF file = NoFile THEN None
    ELSE
      LET pop2 == Drop(file, {"MDIV", "LSAD", "SUMLEV"})
      IN  IF "YEAR" \in Columns(pop2)
          THEN Drop(Filter(pop2, LAMBDA r : r.YEAR = 4), {"YEAR"})
          ELSE pop2

get_industry(df) ==
    IF df = NoFile THEN None
    ELSE IF "area_fips" \notin Columns(df) THEN None
    ELSE SetCol(Filter(Drop(df, {"own_code", "industry_code", "qtr",
                                 "disclosure_code"}),
                       LAMBDA r : to_numeric(r.area_fips) # NA),
                "area_fips",
                LAMBDA r : zfill(astype_str(to_numeric(r.area_fips)), 5))

(***************************************************************************)
(* merge_census_bea_data.py                                                *)
(***************************************************************************)
merge_pop_1980_with_cbsa(pop, cross) ==
    IF \/ ~({"cbsacode", "fips", "cbsaname"} \subseteq Columns(cross))
       \/ "FIPS State and County Codes" \notin Columns(pop)
    THEN None
    ELSE Drop(Merge(pop, Project(cross, <<"cbsacode", "fips", "cbsaname">>),
                    <<"FIPS State and County Codes">>, <<"fips">>, "inner"),
              {"FIPS State and County Codes"})

merge_pop_1980_with_bfi(msa_pop, bfi) ==
    IF \/ ~({"metro13", "metro_title"} \subseteq Columns(bfi))
       \/ ~({"cbsacode", "cbsaname"} \subseteq Columns(msa_pop))
    THEN None
    ELSE Drop(Merge(msa_pop, Project(bfi, <<"metro13", "metro_title">>),
                    <<"cbsacode">>, <<"metro13">>, "inner"),
              {"cbsacode", "cbsaname"})

merge_pop_2022_with_bfi(pop2, bfi) ==
    IF \/ ~({"metro13", "metro_title"} \subseteq Columns(bfi))
       \/ ~({"CBSA", "NAME"} \subseteq Columns(pop2))
    THEN None
    ELSE Drop(Merge(pop2, Project(bfi, <<"metro13", "metro_title">>),
                    <<"CBSA">>, <<"metro13">>, "inner"),
              {"CBSA", "NAME"})

combine_industries(ind_1980, ind_2022) ==
    IF ind_1980 = None \/ ind_2022 = None THEN None
    ELSE Concat(ind_1980, ind_2022)

merge_industry_with_msa(ind, cross, bfi) ==
    IF \/ "area_fips" \notin Columns(ind)
       \/ ~({"cbsacode", "fips", "cbsaname"} \subseteq Columns(cross))
       \/ ~({"metro13", "metro_title"} \subseteq Columns(bfi))
    THEN None
    ELSE
      LET msa_all_ind ==
              Drop(Merge(ind, Project(cross, <<"cbsacode", "fips", "cbsaname">>),
                         <<"area_fips">>, <<"fips">>, "inner"),
                   {"area_fips"})
          merged ==
              Drop(Merge(msa_all_ind, Project(bfi, <<"metro13", "metro_title">>),
                         <<"cbsacode">>, <<"metro13">>, "inner"),
                   {"cbsacode", "cbsaname", "fips", "industry_title"})
      IN  IF "own_title" \in Columns(merged)
          THEN Filter(merged, LAMBDA r : r.own_title = "Total Covered")
          ELSE merged

(***************************************************************************)
(* build_census_bea_resources.py: build_bfi_pop_labor                      *)
(***************************************************************************)
\* build_bfi_pop_labor with the population join written how="inner"
build_bfi_pop_labor_inner(bfi, p1980, p2022, ind) ==
    LET bfi_yrs == Concat(SetCol(bfi, "year", LAMBDA r : 1980),
                          SetCol(bfi, "year", LAMBDA r : 2022))
        pop_df == Drop(Concat(Filter(p1980, LAMBDA r : r.AGEGRP = 0),
                              SetCol(p2022, "year", LAMBDA r : 2022)),
                       {"AGEGRP", "metro_title"})
        on == <<"metro13", "year">>
    IN  Merge(Merge(bfi_yrs, pop_df, on, on, "inner"),
              Project(ind, <<"metro13", "year", "annual_avg_emplvl">>),
              on, on, "left")

ind_cols == <<"metro13", "year", "annual_avg_estabs_count", "annual_avg_emplvl",
              "total_annual_wages", "annual_avg_wkly_wage">>

build_bfi_pop_labor(bfi, p1980, p2022, ind) ==
    LET bfi_yrs == Concat(SetCol(bfi, "year", LAMBDA r : 1980),
                          SetCol(bfi, "year", LAMBDA r : 2022))
        tot_final_pop_1980 ==
            IF "AGEGRP" \in Columns(p1980)
            THEN Filter(p1980, LAMBDA r : r.AGEGRP = 0)
            ELSE p1980
        pop_df == Drop(Concat(tot_final_pop_1980,
                              SetCol(p2022, "year", LAMBDA r : 2022)),
                       {"AGEGRP"})
        pop_right == Drop(pop_df, {"metro_title"})
        available_ind_cols == SelectSeq(ind_cols, LAMBDA c : c \in Columns(ind))
        on == <<"metro13", "year">>
    IN  IF ~HasKeys(bfi_yrs, on) \/ ~HasKeys(pop_right, on) THEN None
        ELSE IF ~(Range(on) \subseteq Range(available_ind_cols)) THEN None
        ELSE Merge(Merge(bfi_yrs, pop_right, on, on, "left"),
                   Project(ind, available_ind_cols), on, on, "left")

(***************************************************************************)
(* build_census_bea_resources.py: build_msa_industry_tables.  The result   *)
(* is the dictionary metro_title -> table; a table holds its year columns  *)
(* in ascending order and, in pct, the "% Change" column when it has one.  *)
(* A cell is a number of hundredths.  Every metro_title of the base table  *)
(* belongs to one metro13.                                                 *)
(***************************************************************************)
metric_cols == <<"annual_avg_estabs_count", "annual_avg_emplvl",
                 "total_annual_wages", "annual_avg_wkly_wage">>

required_cols == <<"metro13", "metro_title", "year">> \o metric_cols

\* float inf: a non-zero number divided by zero
Inf == 2000000

\* sorted(...) of a set of years
RECURSIVE sorted(_)
sorted(S) ==
    IF S = {} THEN <<>>
    ELSE LET lo == CHOOSE y \in S : \A z \in S : y <= z
         IN  <<lo>> \o sorted(S \ {lo})

\* .agg(...) on the rows of one (metro13, metro_title, year) group: the sum
\* of the column, the mean for annual_avg_wkly_wage, as the fraction n / d
agg(rows, c) ==
    [n |-> SumSeq(MapSeq(rows, LAMBDA r : r[c])),
     d |-> IF c = "annual_avg_wkly_wage" THEN Len(rows) ELSE 1]

\* (table[y1] - table[y0]) / table[y1] * 100 on one row, rounded to 2 decimals
change_over_latest(v0, v1) ==
    IF v1.n = 0 THEN (IF v0.n = 0 THEN NaN ELSE 0 - Inf)
    ELSE RoundSigned((v1.n * v0.d - v0.n * v1.d) * 10000, v1.n * v0.d)

\* (table[y1] - table[y0]) / table[y0] * 100 on one row, rounded to 2 decimals
change(v0, v1) ==
    IF v0.n = 0 THEN (IF v1.n = 0 THEN NaN ELSE Inf)
    ELSE RoundSigned((v1.n * v0.d - v0.n * v1.d) * 10000, v0.n * v1.d)

\* the table of one metro_title
industry_table(df, msa) ==
    LET sub == SelectSeq(df.rows, LAMBDA r : r.metro_title = msa)
        years == sorted({r.year : r \in Range(sub)})
        value(y, c) == agg(SelectSeq(sub, LAMBDA r : r.year = y), c)
        y0 == years[1]
        y1 == years[Len(years)]
    IN  [years |-> years,
         cols |-> [i \in 1..Len(years) |->
                      [c \in Range(metric_cols) |->
                          RoundSigned(value(years[i], c).n * 100,
                                      value(years[i], c).d)]],
         pct |-> IF Len(years) > 1
                 THEN <<[c \in Range(metric_cols) |->
                            change(value(y0, c), value(y1, c))]>>
                 ELSE <<>>]

build_msa_industry_tables(df) ==
    IF ~(Range(required_cols) \subseteq Columns(df)) THEN <<>>
    ELSE [msa \in {r.metro_title : r \in Range(df.rows)} |->
             industry_table(df, msa)]

(***************************************************************************)
(* Bounds and input universes of the master-table flow                     *)
(***************************************************************************)
MaxBfiRows == 3
MaxCrossRows == 2
MaxLaborRows == 2
MaxPopRows == 2
MaxBaseRows == 2
MaxCountyRows == 2
MaxCbsaRows == 2

T10420 == <<"1", "0", "4", "2", "0">>
T12060 == <<"1", "2", "0", "6", "0">>
T99999 == <<"9", "9", "9", "9", "9">>
T55555 == <<"5", "5", "5", "5", "5">>
T39133 == <<"3", "9", "1", "3", "3">>
T39153 == <<"3", "9", "1", "5", "3">>
T13121 == <<"1", "3", "1", "2", "1">>
T1001 == <<"1", "0", "0", "1">>
TBad == <<"x">>

\* rows of the_rise_of_healthcare_jobs_disclosed_data_by_msa.csv
BfiRow(code, title) == [metro13 |-> code, metro_title |-> title]

BfiCands == <<BfiRow(T10420, "Akron"), BfiRow(T12060, "Atlanta"),
              BfiRow(T99999, "Nowhere"), BfiRow(TBad, "Bad"),
              BfiRow(<<"0">> \o T10420, "Akron")>>

BfiCols == <<"metro13", "metro_title">>

\* rows of cbsatocountycrosswalk.csv
CrossRow(st, county, cbsa, name) ==
    [fipst |-> st, fipscounty |-> county, cbsa |-> cbsa, cbsaname |-> name]

CrossCands == <<CrossRow(<<"3", "9">>, T39133, T10420, "Akron"),
                CrossRow(<<"3", "9">>, T39153, T10420, "Akron"),
                CrossRow(<<"1">>, T1001, T12060, "Atlanta"),
                CrossRow(<<"3", "9">>, T39153, TBad, "Unknown")>>

CrossCols == <<"fipst", "fipscounty", "cbsa", "cbsaname">>

\* rows of labor_<year>.csv
LaborRow(area, yr, own, emp) ==
    [area_fips |-> area, year |-> yr, own_code |-> 0, own_title |-> own,
     annual_avg_estabs_count |-> 1, annual_avg_emplvl |-> emp,
     total_annual_wages |-> emp * 10, annual_avg_wkly_wage |-> emp + 1]

Labor1980Cands == <<LaborRow(T39133, 1980, "Total Covered", 5),
                    LaborRow(T39153, 1980, "Total Covered", 7),
                    LaborRow(T39133, 1980, "Private", 3)>>

Labor2022Cands == <<LaborRow(T1001, 2022, "Total Covered", 9)>>

LaborCols == <<"area_fips", "own_code", "year", "own_title",
               "annual_avg_estabs_count", "annual_avg_emplvl",
               "total_annual_wages", "annual_avg_wkly_wage">>

\* rows of the 1980 population table in the shape rename_pop_1980_columns
\* returns it, and of the 2022 table in the shape of organize_pop_2022_minimal
Pop1980Row(code, title, age, tot) ==
    [metro13 |-> code, metro_title |-> title, year |-> 1980, AGEGRP |-> age,
     TOT_POP |-> tot]

Pop1980Cands == <<Pop1980Row(T10420, "Akron", 0, 10),
                  Pop1980Row(T12060, "Atlanta", 0, 20),
                  Pop1980Row(T10420, "Akron", 1, 4)>>

Pop1980Cols == <<"year", "metro13", "metro_title", "AGEGRP", "TOT_POP">>

Pop2022Row(code, title, tot) ==
    [metro13 |-> code, metro_title |-> title, TOT_POP |-> tot]

Pop2022Cands == <<Pop2022Row(T10420, "Akron", 30),
                  Pop2022Row(T12060, "Atlanta", 40),
                  Pop2022Row(T55555, "Elsewhere", 50)>>

Pop2022Cols == <<"metro13", "metro_title", "TOT_POP">>

Tables(cols, cands, n) == {Table(cols, rows) : rows \in Pick(cands, n)}

\* the files the pipeline reads and writes
RawFiles == {"pop_1980.csv", "pop_2022.csv", "labor_1980.csv", "labor_2022.csv",
             "cbsatocountycrosswalk.csv"}

BfiFile == "the_rise_of_healthcare_jobs_disclosed_data_by_msa.csv"

MasterFile == "merged_bfi.csv"

Files == RawFiles \cup {BfiFile, MasterFile}

\* the geospatial stage has not run
\* the cleaners of clean_census_bea_data.py that take a raw table
Cleaners == {"clean_bfi", "clean_pop_1980", "clean_cbsa_county_crosswalk",
             "clean_pop_2022", "organize_pop_2022_minimal"}

\* no cleaner has been called
NoCalls == calls = [c \in Cleaners |-> None]

\* the record of a call: the argument before, the argument after, the result
Call(c, arg, after, res) ==
    [calls EXCEPT ![c] = [arg |-> arg, after |-> after, ret |-> res]]

NoGdp ==
    /\ gdp_data = None
    /\ gdp_df = None
    /\ gdp_file = NoFile
    /\ gdp_merged = None

NoGeo ==
    /\ df_long = {}
    /\ msa_path = NoFile
    /\ states_path = NoFile
    /\ clipped_states_path = NoFile
    /\ combined_path = NoFile
    /\ shp_dirs = [cbsa |-> <<>>, states |-> <<>>]
    /\ clipped_states_keep = FALSE
    /\ geo_run = 0
    /\ geo_failed = {}
    /\ geo_err = FALSE
    /\ geo_wrote = FALSE
    /\ prev_combined = NoFile

\* no call of run_full_pipeline is under way and no file is on disk
NoPipeline ==
    /\ disk = [f \in Files |-> NoFile]
    /\ dl = [f \in RawFiles |-> "none"]
    /\ stale = {}
    /\ run = 0
    /\ invoked = <<>>
    /\ none_at = ""
    /\ ret = "running"

(***************************************************************************)
(* The master-table flow: sections 1, 4 and 5 of run_full_pipeline, with   *)
(* the two population tables of section 5 drawn as build_bfi_pop_labor     *)
(* may be handed them.                                                      *)
(***************************************************************************)
Init ==
    /\ pc = "get_bfi"
    /\ bfi_df = None
    /\ msa_county = None
    /\ labor = None
    /\ all_ind = None
    /\ final_pop_1980 = None
    /\ min_df_2022 = None
    /\ merged_all_ind = None
    /\ new_bfi_df = None
    /\ NoTables
    /\ pop_1980 = None
    /\ msa_pop_1980 = None
    /\ merged_pop_1980 = None
    /\ pop_1980_agg = None
    /\ pop_2022 = None
    /\ merged_pop_2022 = None
    /\ NoPipeline
    /\ NoGeo
    /\ NoGdp
    /\ NoCalls

\* getter.get_bfi(); cleaner.clean_bfi(bfi_df)
GetCleanBfi ==
    /\ pc = "get_bfi"
    /\ \E raw \in Tables(BfiCols, BfiCands, MaxBfiRows) :
         bfi_df' = clean_bfi(raw)
    /\ pc' = IF bfi_df' = None THEN "failed" ELSE "get_crosswalk"
    /\ UNCHANGED <<msa_county, labor, all_ind, final_pop_1980, min_df_2022,
                   merged_all_ind, new_bfi_df, popvars>>
    /\ UNCHANGED <<pipevars, geovars, tabvars, gdpvars, calls>>

\* getter.get_cbsa_county_crosswalk(); cleaner.clean_cbsa_county_crosswalk(..)
GetCleanCrosswalk ==
    /\ pc = "get_crosswalk"
    /\ \E raw \in Tables(CrossCols, CrossCands, MaxCrossRows) :
         msa_county' = clean_cbsa_county_crosswalk(raw)
    /\ pc' = IF msa_county' = None THEN "failed" ELSE "combine_industries"
    /\ UNCHANGED <<bfi_df, labor, all_ind, final_pop_1980, min_df_2022,
                   merged_all_ind, new_bfi_df, popvars>>
    /\ UNCHANGED <<pipevars, geovars, tabvars, gdpvars, calls>>

\* merger.combine_industries(): get_industry(1980), get_industry(2022), concat
CombineIndustries ==
    /\ pc = "combine_industries"
    /\ \E l80 \in Tables(LaborCols, Labor1980Cands, MaxLaborRows),
          l22 \in Tables(LaborCols, Labor2022Cands, MaxLaborRows) :
         labor' = [y \in {1980, 2022} |-> IF y = 1980 THEN l80 ELSE l22]
    /\ all_ind' = combine_industries(get_industry(labor'[1980]),
                                     get_industry(labor'[2022]))
    /\ pc' = IF all_ind' = None THEN "failed" ELSE "merge_industry"
    /\ UNCHANGED <<bfi_df, msa_county, final_pop_1980, min_df_2022,
                   merged_all_ind, new_bfi_df, popvars>>
    /\ UNCHANGED <<pipevars, geovars, tabvars, gdpvars, calls>>

\* merger.merge_industry_with_msa(all_ind, msa_county, bfi_df)
MergeIndustryWithMsa ==
    /\ pc = "merge_industry"
    /\ merged_all_ind' = merge_industry_with_msa(all_ind, msa_county, bfi_df)
    /\ pc' = IF merged_all_ind' = None THEN "failed" ELSE "build"
    /\ UNCHANGED <<bfi_df, msa_county, labor, all_ind, final_pop_1980,
                   min_df_2022, new_bfi_df, popvars>>
    /\ UNCHANGED <<pipevars, geovars, tabvars, gdpvars, calls>>

\* builder.build_bfi_pop_labor(bfi_df, final_pop_1980, min_df_2022, merged_all_ind)
BuildBfiPopLabor ==
    /\ pc = "build"
    /\ \E p80 \in Tables(Pop1980Cols, Pop1980Cands, MaxPopRows),
          p22 \in Tables(Pop2022Cols, Pop2022Cands, MaxPopRows) :
         /\ final_pop_1980' = p80
         /\ min_df_2022' = p22
    /\ new_bfi_df' = build_bfi_pop_labor(bfi_df, final_pop_1980', min_df_2022',
                                         merged_all_ind)
    /\ pc' = IF new_bfi_df' = None THEN "failed" ELSE "done"
    /\ UNCHANGED <<bfi_df, msa_county, labor, all_ind, merged_all_ind, popvars>>
    /\ UNCHANGED <<pipevars, geovars, tabvars, gdpvars, calls>>

Next ==
    \/ GetCleanBfi
    \/ GetCleanCrosswalk
    \/ CombineIndustries
    \/ MergeIndustryWithMsa
    \/ BuildBfiPopLabor

Spec == Init /\ [][Next]_vars

(***************************************************************************)
(* Properties of the master table                                          *)
(***************************************************************************)
Metros(df) == {r.metro13 : r \in Range(df.rows)}

MasterRows == new_bfi_df.rows

\* C1: for each year in {1980, 2022} the master table has at least one row
\* for every metro13 of the base table, and no row whose metro13 is absent
\* from the base table.
C1_JoinCompleteness ==
    pc = "done" =>
        /\ \A m \in Metros(bfi_df) : \A y \in {1980, 2022} :
              \E i \in 1..Len(MasterRows) :
                  MasterRows[i].metro13 = m /\ MasterRows[i].year = y
        /\ \A i \in 1..Len(MasterRows) : MasterRows[i].metro13 \in Metros(bfi_df)

\* a base metro without population (null TOT_POP) stands in the master table
\* while a population row of a metro outside the base table was dropped
C1_Witness ==
    /\ pc = "done"
    /\ \E i \in 1..Len(MasterRows) : MasterRows[i].TOT_POP = Null
    /\ \E m \in Metros(min_df_2022) : m \notin Metros(bfi_df)
    /\ Len(bfi_df.rows) > 1

DistinctMetros(df) ==
    \A i, j \in 1..Len(df.rows) :
        df.rows[i].metro13 = df.rows[j].metro13 => i = j

\* C2: with distinct base metro ids, the master table never holds two rows
\* with the same metro13 and the same year.
C2_OneRowPerMetroYear ==
    (pc = "done" /\ DistinctMetros(bfi_df)) =>
        \A i, j \in 1..Len(MasterRows) :
            (/\ MasterRows[i].metro13 = MasterRows[j].metro13
             /\ MasterRows[i].year = MasterRows[j].year) => i = j

\* the metros a population table covers (its total-age rows)
Covered1980 == {r.metro13 : r \in {x \in Range(final_pop_1980.rows) : x.AGEGRP = 0}}

Covered2022 == Metros(min_df_2022)

C3_Scenario ==
    /\ pc = "done"
    /\ MapSeq(bfi_df.rows, LAMBDA r : r.metro13) = <<T10420, T12060, T99999>>
    /\ Covered1980 = {T10420, T12060}
    /\ Covered2022 = {T10420, T12060}

\* C3: in the scenario of three base metros 10420, 12060, 99999 with
\* population for 10420 and 12060 only, the master table has exactly 6 rows,
\* TOT_POP null in the rows of 99999 and non-null in all other rows.
C3_SixRows ==
    C3_Scenario =>
        /\ Len(MasterRows) = 6
        /\ \A i \in 1..Len(MasterRows) :
              (MasterRows[i].TOT_POP = Null) <=> (MasterRows[i].metro13 = T99999)

\* C4: after cleaning, every join key column holds 5-character strings in
\* the rows whose code is valid (numeric).
KeyCells ==
    (IF bfi_df = None THEN {} ELSE {r.metro13 : r \in Range(bfi_df.rows)})
    \cup (IF msa_county = None THEN {}
          ELSE {r.fips : r \in Range(msa_county.rows)}
               \cup {r.cbsacode : r \in Range(msa_county.rows)})
    \cup (IF all_ind = None THEN {} ELSE {r.area_fips : r \in Range(all_ind.rows)})

C4_FixedWidthKeys == \A k \in KeyCells : IsNumeric(k) => Len(k) = 5

(***************************************************************************)
(* Input universes of the population flow                                  *)
(***************************************************************************)
\* rows of pop_1980.csv: year, county code, race/sex indicator, age bands
CountyRow(yr, code, ind, a, b) ==
    ("Year of Estimate" :> yr) @@ ("FIPS State and County Codes" :> code)
    @@ ("Race/Sex Indicator" :> ind) @@ ("Under 5 years" :> a)
    @@ ("5 to 9 years" :> b) @@ ("10 to 14 years" :> b)
    @@ ("15 to 19 years" :> a) @@ ("20 to 24 years" :> 1)

CountyCols == <<"Year of Estimate", "FIPS State and County Codes",
                "Race/Sex Indicator", "Under 5 years", "5 to 9 years",
                "10 to 14 years", "15 to 19 years", "20 to 24 years">>

CountyCands == <<CountyRow(1980, T39133, "White male", 1, 2),
                 CountyRow(1980, T39153, "White male", 3, 1),
                 CountyRow(1980, T39133, "White female", 2, 3),
                 CountyRow(1981, T39133, "White male", 4, 4)>>

\* the row of Autauga County, Alabama, FIPS 01001, which read_csv reads as
\* the number 1001
Autauga == CountyRow(1980, T1001, "Black female", 2, 2)

\* rows of pop_2022.csv: the race columns count a person alone or in
\* combination, and H_MALE counts the hm Hispanic men among the wm white men
CbsaRow(code, name, yr, age, wm, wf, bm, bf, om, of, hm) ==
    [CBSA |-> code, NAME |-> name, LSAD |-> "Metropolitan Statistical Area",
     YEAR |-> yr, AGEGRP |-> age,
     TOT_POP |-> wm + wf + bm + bf + om + of,
     TOT_MALE |-> wm + bm + om, TOT_FEMALE |-> wf + bf + of,
     WAC_MALE |-> wm, WAC_FEMALE |-> wf, BAC_MALE |-> bm, BAC_FEMALE |-> bf,
     IAC_MALE |-> om, IAC_FEMALE |-> 0, AAC_MALE |-> 0, AAC_FEMALE |-> of,
     NAC_MALE |-> 0, NAC_FEMALE |-> 0, H_MALE |-> hm, H_FEMALE |-> 0]

CbsaCols == <<"CBSA", "NAME", "LSAD", "YEAR", "AGEGRP", "TOT_POP", "TOT_MALE", "TOT_FEMALE",
              "WAC_MALE", "WAC_FEMALE", "BAC_MALE", "BAC_FEMALE", "IAC_MALE",
              "IAC_FEMALE", "AAC_MALE", "AAC_FEMALE", "NAC_MALE", "NAC_FEMALE",
              "H_MALE", "H_FEMALE">>

CbsaCands == <<CbsaRow(T10420, "Akron", 4, 0, 3, 3, 1, 2, 1, 0, 1),
               CbsaRow(T10420, "Akron", 4, 1, 1, 1, 0, 1, 0, 0, 0),
               CbsaRow(TBad, "Unknown", 4, 0, 2, 1, 1, 1, 0, 1, 0),
               CbsaRow(T10420, "Akron", 3, 0, 2, 3, 1, 2, 1, 0, 1),
               CbsaRow(T12060, "Atlanta", 4, 0, 0, 2, 0, 1, 0, 0, 0)>>

\* a file that lacks the column key
Without(cols, cands, key) ==
    {Table(SeqMinus(cols, {key}), <<DropCols(cands[1], {key})>>)}

\* pop_1980.csv opens with an empty row under the header
WithBlankRow(t) ==
    Table(t.cols, <<[c \in Range(t.cols) |-> NullOf(c)]>> \o t.rows)

(***************************************************************************)
(* The population flow: sections 1, 2 and 3 of run_full_pipeline           *)
(***************************************************************************)
InitPop ==
    /\ pc = "p_get_bfi"
    /\ bfi_df = None
    /\ msa_county = None
    /\ labor = None
    /\ all_ind = None
    /\ final_pop_1980 = None
    /\ min_df_2022 = None
    /\ merged_all_ind = None
    /\ new_bfi_df = None
    /\ NoTables
    /\ pop_1980 = None
    /\ msa_pop_1980 = None
    /\ merged_pop_1980 = None
    /\ pop_1980_agg = None
    /\ pop_2022 = None
    /\ merged_pop_2022 = None
    /\ NoPipeline
    /\ NoGeo
    /\ NoGdp
    /\ NoCalls

indvars == <<labor, all_ind, merged_all_ind, new_bfi_df>>

\* getter.get_bfi(); cleaner.clean_bfi(bfi_df)
PopGetCleanBfi ==
    /\ pc = "p_get_bfi"
    /\ \E raw \in Tables(BfiCols, BfiCands, MaxBaseRows)
                \cup Without(BfiCols, BfiCands, "metro13") :
         /\ bfi_df' = clean_bfi(raw)
         /\ calls' = Call("clean_bfi", raw, after_clean_bfi(raw), bfi_df')
    /\ pc' = IF bfi_df' = None THEN "failed" ELSE "p_get_pop_1980"
    /\ UNCHANGED <<msa_county, final_pop_1980, min_df_2022, indvars, popvars>>
    /\ UNCHANGED <<pipevars, geovars, tabvars, gdpvars>>

\* getter.get_pop_1980(); cleaner.clean_pop_1980(raw_pop_1980)
GetCleanPop1980 ==
    /\ pc = "p_get_pop_1980"
    /\ \E raw \in Tables(CountyCols, CountyCands, MaxCountyRows)
                \cup Without(CountyCols, CountyCands, "Year of Estimate") :
         LET raw_pop_1980 == get_pop_1980(WithBlankRow(raw))
         IN  /\ pop_1980' = clean_pop_1980(raw_pop_1980)
             /\ calls' = Call("clean_pop_1980", raw_pop_1980,
                              after_clean_pop_1980(raw_pop_1980), pop_1980')
    /\ pc' = IF pop_1980' = None THEN "failed" ELSE "p_get_crosswalk"
    /\ UNCHANGED <<bfi_df, msa_county, final_pop_1980, min_df_2022, indvars,
                   msa_pop_1980, merged_pop_1980, pop_1980_agg, pop_2022,
                   merged_pop_2022>>
    /\ UNCHANGED <<pipevars, geovars, tabvars, gdpvars>>

\* getter.get_cbsa_county_crosswalk(); cleaner.clean_cbsa_county_crosswalk(..)
PopGetCleanCrosswalk ==
    /\ pc = "p_get_crosswalk"
    /\ \E raw \in Tables(CrossCols, CrossCands, MaxCrossRows)
                \cup Without(CrossCols, CrossCands, "cbsa") :
         /\ msa_county' = clean_cbsa_county_crosswalk(raw)
         /\ calls' = Call("clean_cbsa_county_crosswalk", raw,
                          after_clean_cbsa_county_crosswalk(raw), msa_county')
    /\ pc' = IF msa_county' = None THEN "failed" ELSE "p_merge_cbsa"
    /\ UNCHANGED <<bfi_df, final_pop_1980, min_df_2022, indvars, popvars>>
    /\ UNCHANGED <<pipevars, geovars, tabvars, gdpvars>>

\* merger.merge_pop_1980_with_cbsa(pop_1980, msa_county)
MergePop1980WithCbsa ==
    /\ pc = "p_merge_cbsa"
    /\ msa_pop_1980' = merge_pop_1980_with_cbsa(pop_1980, msa_county)
    /\ pc' = IF msa_pop_1980' = None THEN "failed" ELSE "p_merge_bfi"
    /\ UNCHANGED <<bfi_df, msa_county, final_pop_1980, min_df_2022, indvars,
                   pop_1980, merged_pop_1980, pop_1980_agg, pop_2022,
                   merged_pop_2022>>
    /\ UNCHANGED <<pipevars, geovars, tabvars, gdpvars, calls>>

\* merger.merge_pop_1980_with_bfi(msa_pop_1980, bfi_df)
MergePop1980WithBfi ==
    /\ pc = "p_merge_bfi"
    /\ merged_pop_1980' = merge_pop_1980_with_bfi(msa_pop_1980, bfi_df)
    /\ pc' = IF merged_pop_1980' = None THEN "failed" ELSE "p_aggregate"
    /\ UNCHANGED <<bfi_df, msa_county, final_pop_1980, min_df_2022, indvars,
                   pop_1980, msa_pop_1980, pop_1980_agg, pop_2022,
                   merged_pop_2022>>
    /\ UNCHANGED <<pipevars, geovars, tabvars, gdpvars, calls>>

\* cleaner.aggregate_pop_1980(merged_pop_1980)
AggregatePop1980 ==
    /\ pc = "p_aggregate"
    /\ pop_1980_agg' = aggregate_pop_1980(merged_pop_1980)
    /\ pc' = IF pop_1980_agg' = None THEN "failed" ELSE "p_transform"
    /\ UNCHANGED <<bfi_df, msa_county, final_pop_1980, min_df_2022, indvars,
                   pop_1980, msa_pop_1980, merged_pop_1980, pop_2022,
                   merged_pop_2022>>
    /\ UNCHANGED <<pipevars, geovars, tabvars, gdpvars, calls>>

\* cleaner.transform_pop_1980_to_final(pop_1980_agg);
\* cleaner.rename_pop_1980_columns(final_pop_1980)
TransformRenamePop1980 ==
    /\ pc = "p_transform"
    /\ final_pop_1980' =
          LET wide == transform_pop_1980_to_final(pop_1980_agg)
          IN  IF wide = None THEN None ELSE rename_pop_1980_columns(wide)
    /\ pc' = IF final_pop_1980' = None THEN "failed" ELSE "p_get_pop_2022"
    /\ UNCHANGED <<bfi_df, msa_county, min_df_2022, indvars, popvars>>
    /\ UNCHANGED <<pipevars, geovars, tabvars, gdpvars, calls>>

\* getter.get_pop_2022(); cleaner.clean_pop_2022(pop_2022)
GetCleanPop2022 ==
    /\ pc = "p_get_pop_2022"
    /\ \E raw \in Tables(CbsaCols, CbsaCands, MaxCbsaRows)
                \cup Without(CbsaCols, CbsaCands, "CBSA")
                \cup Without(CbsaCols, CbsaCands, "H_MALE") :
         LET got == get_pop_2022(raw)
         IN  /\ pop_2022' = IF got = None THEN None ELSE clean_pop_2022(got)
             /\ calls' = IF got = None THEN calls
                         ELSE Call("clean_pop_2022", got,
                                   after_clean_pop_2022(got), pop_2022')
    /\ pc' = IF pop_2022' = None THEN "failed" ELSE "p_merge_2022"
    /\ UNCHANGED <<bfi_df, msa_county, final_pop_1980, min_df_2022, indvars,
                   pop_1980, msa_pop_1980, merged_pop_1980, pop_1980_agg,
                   merged_pop_2022>>
    /\ UNCHANGED <<pipevars, geovars, tabvars, gdpvars>>

\* merger.merge_pop_2022_with_bfi(pop_2022, bfi_df)
MergePop2022WithBfi ==
    /\ pc = "p_merge_2022"
    /\ merged_pop_2022' = merge_pop_2022_with_bfi(pop_2022, bfi_df)
    /\ pc' = IF merged_pop_2022' = None THEN "failed" ELSE "p_organize"
    /\ UNCHANGED <<bfi_df, msa_county, final_pop_1980, min_df_2022, indvars,
                   pop_1980, msa_pop_1980, merged_pop_1980, pop_1980_agg,
                   pop_2022>>
    /\ UNCHANGED <<pipevars, geovars, tabvars, gdpvars, calls>>

\* cleaner.organize_pop_2022_minimal(merged_pop_2022)
OrganizePop2022Minimal ==
    /\ pc = "p_organize"
    /\ min_df_2022' = organize_pop_2022_minimal(merged_pop_2022)
    /\ calls' = Call("organize_pop_2022_minimal", merged_pop_2022,
                     after_organize_pop_2022_minimal(merged_pop_2022),
                     min_df_2022')
    /\ pc' = IF min_df_2022' = None THEN "failed" ELSE "p_done"
    /\ UNCHANGED <<bfi_df, msa_county, final_pop_1980, indvars, popvars>>
    /\ UNCHANGED <<pipevars, geovars, tabvars, gdpvars>>

\* builder.make_msa_tables(final_pop_1980);
\* builder.make_msa_tables(min_df_2022)
MakeMsaTables ==
    /\ pc = "p_done"
    /\ msa_tables_1980' = make_msa_tables(final_pop_1980)
    /\ msa_tables_2022' = make_msa_tables(min_df_2022)
    /\ pc' = "p_tables"
    /\ UNCHANGED labor_table
    /\ UNCHANGED <<bfi_df, msa_county, final_pop_1980, min_df_2022, indvars,
                   popvars>>
    /\ UNCHANGED <<pipevars, geovars, gdpvars, calls>>

NextPop ==
    \/ PopGetCleanBfi
    \/ GetCleanPop1980
    \/ PopGetCleanCrosswalk
    \/ MergePop1980WithCbsa
    \/ MergePop1980WithBfi
    \/ AggregatePop1980
    \/ TransformRenamePop1980
    \/ GetCleanPop2022
    \/ MergePop2022WithBfi
    \/ OrganizePop2022Minimal
    \/ MakeMsaTables

SpecPop == InitPop /\ [][NextPop]_vars

\* C7: a record whose geographic code is unparseable matches no record in
\* the joins: every row a join of the population flow returns was matched on
\* a parsed (numeric) code.
C7_UnparseableExcluded ==
    /\ msa_pop_1980 # None =>
          \A r \in Range(msa_pop_1980.rows) : IsNumeric(r.fips)
    /\ merged_pop_1980 # None =>
          \A r \in Range(merged_pop_1980.rows) : IsNumeric(r.metro13)
    /\ merged_pop_2022 # None =>
          \A r \in Range(merged_pop_2022.rows) : IsNumeric(r.metro13)

\* year, race/sex indicator and metro id of a 1980 row
MetroKey(r) == <<r["Year of Estimate"], r["Race/Sex Indicator"], r.metro13>>

\* C18: aggregate_pop_1980 has run only after merge_pop_1980_with_cbsa and
\* merge_pop_1980_with_bfi returned their tables, and its output holds one
\* row per (year, race/sex indicator, metro) of the matched county rows,
\* each count the sum over the matched county rows of that metro.
C18_SummedAfterMetroResolved ==
    pop_1980_agg # None =>
        /\ msa_pop_1980 # None
        /\ merged_pop_1980 # None
        /\ \A i, j \in 1..Len(pop_1980_agg.rows) :
              MetroKey(pop_1980_agg.rows[i]) = MetroKey(pop_1980_agg.rows[j])
                  => i = j
        /\ {MetroKey(r) : r \in Range(pop_1980_agg.rows)}
              = {MetroKey(r) : r \in Range(merged_pop_1980.rows)}
        /\ \A a \in Range(pop_1980_agg.rows) :
              \A c \in Columns(pop_1980_agg) \ Range(group_cols) :
                  a[c] = SumSeq(MapSeq(
                             SelectSeq(merged_pop_1980.rows,
                                       LAMBDA r : MetroKey(r) = MetroKey(a)),
                             LAMBDA r : r[c]))

\* two counties of one metro were summed into one row
C18_Witness ==
    /\ pop_1980_agg # None
    /\ \E a \in Range(pop_1980_agg.rows) :
          /\ a.metro13 = T10420
          /\ a["Under 5 years"] = 4
          /\ Len(SelectSeq(merged_pop_1980.rows,
                           LAMBDA r : MetroKey(r) = MetroKey(a))) = 2

\* the cleaners that assign into the table passed to them
InPlace == {"clean_bfi", "clean_cbsa_county_crosswalk", "clean_pop_2022"}

CanonicalCols == {"year", "TOT_POP", "TOT_MALE", "TOT_FEMALE", "WAC_MALE",
                  "WAC_FEMALE", "BAC_MALE", "BAC_FEMALE", "OTHER_MALE",
                  "OTHER_FEMALE"}

\* C14: after transform_pop_1980_to_final and rename_pop_1980_columns every
\* column of the 1980 table other than its index columns metro13,
\* metro_title and AGEGRP carries one of the column names of the 2022 table.
C14_CanonicalSchema ==
    final_pop_1980 # None =>
        Columns(final_pop_1980) \ {"metro13", "metro_title", "AGEGRP"}
            \subseteq CanonicalCols

\* the sex totals make_msa_tables divided by for the metro of table t
TotalsOf(df, t) ==
    LET rows == msa_totals(df).rows
    IN  rows[CHOOSE i \in 1..Len(rows) : rows[i].metro_title = t.msa]

\* White + Black + Other of a row is within 0.02 of 100
Closed(row) ==
    LET sum == row.White + row.Black + row.Other
    IN  sum >= 10000 - 2 /\ sum <= 10000 + 2

\* C15: in every table make_msa_tables returns, for the 1980 table and for
\* the 2022 table, the Male row and the Female row whose sex total is
\* positive add up to 100 within 0.02.
C15_ProportionsAddUp ==
    pc = "p_tables" =>
        /\ \A i \in 1..Len(msa_tables_1980) :
              LET t == msa_tables_1980[i]
                  tot == TotalsOf(final_pop_1980, t)
              IN  /\ tot.TOT_MALE > 0 => Closed(t.Male)
                  /\ tot.TOT_FEMALE > 0 => Closed(t.Female)
        /\ \A i \in 1..Len(msa_tables_2022) :
              LET t == msa_tables_2022[i]
                  tot == TotalsOf(min_df_2022, t)
              IN  /\ tot.TOT_MALE > 0 => Closed(t.Male)
                  /\ tot.TOT_FEMALE > 0 => Closed(t.Female)

\* all three percentages of a row are 0.0
AllZero(row) == row.White = 0 /\ row.Black = 0 /\ row.Other = 0

\* C16: the Male (Female) row of a metro whose TOT_MALE (TOT_FEMALE) is 0
\* holds 0.0 three times, and no cell of a table is inf or nan.
C16_ZeroTotalGivesZeros ==
    pc = "p_tables" =>
        \A i \in 1..Len(msa_tables_2022) :
            LET t == msa_tables_2022[i]
                tot == TotalsOf(min_df_2022, t)
            IN  /\ tot.TOT_MALE = 0 => AllZero(t.Male)
                /\ tot.TOT_FEMALE = 0 => AllZero(t.Female)
                /\ \A sex \in {t.Male, t.Female} :
                      Undefined \notin {sex.White, sex.Black, sex.Other}

\* a metro without men and with women has its table
C16_Witness ==
    /\ pc = "p_tables"
    /\ \E i \in 1..Len(msa_tables_2022) :
          LET t == msa_tables_2022[i]
              tot == TotalsOf(min_df_2022, t)
          IN  tot.TOT_MALE = 0 /\ tot.TOT_FEMALE > 0 /\ AllZero(t.Male)

\* the rows of merged_pop_2022 for all ages together
TotalAgeRows == SelectSeq(merged_pop_2022.rows, LAMBDA r : r.AGEGRP = 0)

\* C22: the table organize_pop_2022_minimal returns has one row per input
\* row with AGEGRP = 0, in the order of the input, with the base columns of
\* that row, OTHER_MALE = IAC_MALE + AAC_MALE + NAC_MALE + H_MALE and
\* OTHER_FEMALE = IAC_FEMALE + AAC_FEMALE + NAC_FEMALE + H_FEMALE of that row.
C22_TotalAgeRowsWithOther ==
    (pc \in {"p_done", "p_tables"} /\ min_df_2022 # None) =>
        /\ Len(min_df_2022.rows) = Len(TotalAgeRows)
        /\ \A i \in 1..Len(TotalAgeRows) :
              LET r == TotalAgeRows[i]
                  m == min_df_2022.rows[i]
              IN  /\ \A c \in Range(Tail(required_base_cols)) : m[c] = r[c]
                  /\ m.OTHER_MALE =
                        r.IAC_MALE + r.AAC_MALE + r.NAC_MALE + r.H_MALE
                  /\ m.OTHER_FEMALE =
                        r.IAC_FEMALE + r.AAC_FEMALE + r.NAC_FEMALE + r.H_FEMALE

\* Akron with a row for all ages (IAC_MALE 1, H_MALE 1) and a row of age
\* group 1: one row is returned, with OTHER_MALE = 2
C22_Witness ==
    /\ pc = "p_done"
    /\ min_df_2022 # None
    /\ Len(merged_pop_2022.rows) = 2
    /\ merged_pop_2022.rows[1].AGEGRP = 0
    /\ merged_pop_2022.rows[1].IAC_MALE = 1
    /\ merged_pop_2022.rows[1].H_MALE = 1
    /\ merged_pop_2022.rows[2].AGEGRP = 1
    /\ Len(min_df_2022.rows) = 1
    /\ min_df_2022.rows[1].OTHER_MALE = 2

\* the rows of merged_pop_1980 that stem from the population row r and
\* belong to metro m
Contributions(r, m) ==
    {i \in 1..Len(merged_pop_1980.rows) :
        /\ merged_pop_1980.rows[i].fips = r["FIPS State and County Codes"]
        /\ merged_pop_1980.rows[i]["Race/Sex Indicator"] = r["Race/Sex Indicator"]
        /\ merged_pop_1980.rows[i].metro13 = m}

\* C29: in the table handed to aggregate_pop_1980 every row of the cleaned
\* 1980 population stands at most once under a given metro.
C29_CountyCountedOnce ==
    merged_pop_1980 # None =>
        \A r \in Range(pop_1980.rows) :
            \A m \in {x.metro13 : x \in Range(merged_pop_1980.rows)} :
                Cardinality(Contributions(r, m)) <= 1

\* a sex total of the wide table, 0 where no row of that sex was summed
SexTotal(r, c) == IF c \in DOMAIN r /\ r[c] # Null THEN r[c] ELSE 0

MaxRuns == 2

\* the files as their sources publish them
GoodFile(f) ==
    CASE f = BfiFile -> Table(BfiCols, <<BfiCands[1], BfiCands[2]>>)
      [] f = "pop_1980.csv" ->
            WithBlankRow(Table(CountyCols, <<CountyCands[1], CountyCands[2],
                                             CountyCands[4], Autauga>>))
      [] f = "pop_2022.csv" ->
            Table(CbsaCols, <<CbsaCands[1], CbsaCands[2], CbsaCands[4]>>)
      [] f = "labor_1980.csv" -> Table(LaborCols, Labor1980Cands)
      [] f = "labor_2022.csv" -> Table(LaborCols, Labor2022Cands)
      [] f = "cbsatocountycrosswalk.csv" ->
            Table(CrossCols, <<CrossCands[1], CrossCands[2], CrossCands[3]>>)

\* the columns a source may publish its file without
Droppable(f) ==
    CASE f = BfiFile -> {"metro13"}
      [] f = "pop_2022.csv" -> {"YEAR", "CBSA"}
      [] f \in {"labor_1980.csv", "labor_2022.csv"} -> {"own_title"}
      [] f = "cbsatocountycrosswalk.csv" -> {"cbsa"}
      [] OTHER -> {}

\* what a download, or the user for the base file, may put on disk
Contents(f) == {GoodFile(f)} \cup {Drop(GoodFile(f), {c}) : c \in Droppable(f)}

\* the calls of run_full_pipeline that return a table or None, in the order
\* of the code
StageOrder == <<"get_bfi", "clean_bfi", "get_pop_1980", "clean_pop_1980",
               "get_cbsa_county_crosswalk", "clean_cbsa_county_crosswalk",
               "merge_pop_1980_with_cbsa", "merge_pop_1980_with_bfi",
               "aggregate_pop_1980", "transform_pop_1980_to_final",
               "rename_pop_1980_columns", "get_pop_2022", "clean_pop_2022",
               "merge_pop_2022_with_bfi", "organize_pop_2022_minimal",
               "combine_industries", "merge_industry_with_msa",
               "build_bfi_pop_labor">>

\* the stage that follows stage s
After(s) ==
    LET i == CHOOSE j \in 1..Len(StageOrder) : StageOrder[j] = s
    IN  IF i = Len(StageOrder) THEN "make_msa_tables" ELSE StageOrder[i + 1]

\* the stage that reads a raw file
Reader(f) ==
    CASE f = "pop_1980.csv" -> "get_pop_1980"
      [] f = "pop_2022.csv" -> "get_pop_2022"
      [] f = "cbsatocountycrosswalk.csv" -> "get_cbsa_county_crosswalk"
      [] OTHER -> "combine_industries"

\* new_bfi_df.to_csv(output_path): the file is written when the path can be
\* opened for writing; the content carries the run that wrote it
to_csv_partial(d, df, ok, n) ==
    [d EXCEPT ![MasterFile] = [table |-> df, written_in |-> n]]

to_csv(d, df, ok, n) ==
    IF ok THEN [d EXCEPT ![MasterFile] = [table |-> df, written_in |-> n]]
    ELSE d

\* merged_bfi.csv was written during the current run
MasterWritten ==
    disk[MasterFile] # NoFile /\ disk[MasterFile].written_in = run

\* what the run returns when stage s returned None, and when none did
ReturnValue(s) == IF s = "" THEN "tables" ELSE "empty"

\* stage s has returned res: `if res is None: return {}, {}, {}`
Return(res, s) ==
    /\ invoked' = Append(invoked, s)
    /\ IF res = None
       THEN /\ pc' = "returned"
            /\ none_at' = s
            /\ ret' = ReturnValue(s)
       ELSE /\ pc' = After(s)
            /\ UNCHANGED <<none_at, ret>>

InitPipe ==
    /\ pc = "get_census_pop"
    /\ bfi_df = None
    /\ msa_county = None
    /\ labor = None
    /\ all_ind = None
    /\ final_pop_1980 = None
    /\ min_df_2022 = None
    /\ merged_all_ind = None
    /\ new_bfi_df = None
    /\ NoTables
    /\ pop_1980 = None
    /\ msa_pop_1980 = None
    /\ merged_pop_1980 = None
    /\ pop_1980_agg = None
    /\ pop_2022 = None
    /\ merged_pop_2022 = None
    /\ disk \in {[f \in Files |-> IF f = BfiFile THEN b ELSE NoFile] :
                    b \in Contents(BfiFile) \cup {NoFile}}
    /\ dl = [f \in RawFiles |-> "none"]
    /\ stale = {}
    /\ run = 1
    /\ invoked = <<>>
    /\ none_at = ""
    /\ ret = "running"
    /\ NoGeo
    /\ NoGdp
    /\ NoCalls

\* getter.get_census_pop()
PipeGetCensusPop ==
    /\ pc = "get_census_pop"
    /\ \E o80 \in Outcomes, o22 \in Outcomes :
       \E c80 \in Contents("pop_1980.csv"), c22 \in Contents("pop_2022.csv") :
          /\ disk' = get_census_pop(disk, o80, c80, o22, c22)
          /\ dl' = [dl EXCEPT !["pop_1980.csv"] = Status(o80),
                              !["pop_2022.csv"] =
                                  IF o80 = "error" THEN "skipped" ELSE Status(o22)]
    /\ pc' = "get_ubls_labor"
    /\ UNCHANGED <<bfi_df, msa_county, labor, all_ind, final_pop_1980,
                   min_df_2022, merged_all_ind, new_bfi_df, pop_1980,
                   msa_pop_1980, merged_pop_1980, pop_1980_agg, pop_2022,
                   merged_pop_2022, stale, run, invoked, none_at, ret>>
    /\ UNCHANGED <<geovars, tabvars, gdpvars, calls>>

\* getter.get_ubls_labor()
PipeGetUblsLabor ==
    /\ pc = "get_ubls_labor"
    /\ \E o80 \in Outcomes, o22 \in Outcomes :
       \E c80 \in Contents("labor_1980.csv"), c22 \in Contents("labor_2022.csv") :
          /\ disk' = get_ubls_labor(disk, o80, c80, o22, c22)
          /\ dl' = [dl EXCEPT !["labor_1980.csv"] = Status(o80),
                              !["labor_2022.csv"] =
                                  IF o80 # "ok" THEN "skipped" ELSE Status(o22)]
    /\ pc' = "get_uber_county_cbsa_crosswalk"
    /\ UNCHANGED <<bfi_df, msa_county, labor, all_ind, final_pop_1980,
                   min_df_2022, merged_all_ind, new_bfi_df, pop_1980,
                   msa_pop_1980, merged_pop_1980, pop_1980_agg, pop_2022,
                   merged_pop_2022, stale, run, invoked, none_at, ret>>
    /\ UNCHANGED <<geovars, tabvars, gdpvars, calls>>

\* getter.get_uber_county_cbsa_crosswalk()
PipeGetUberCrosswalk ==
    /\ pc = "get_uber_county_cbsa_crosswalk"
    /\ \E o \in Outcomes : \E c \in Contents("cbsatocountycrosswalk.csv") :
          /\ disk' = get_uber_county_cbsa_crosswalk(disk, o, c)
          /\ dl' = [dl EXCEPT !["cbsatocountycrosswalk.csv"] = Status(o)]
    /\ pc' = StageOrder[1]
    /\ UNCHANGED <<bfi_df, msa_county, labor, all_ind, final_pop_1980,
                   min_df_2022, merged_all_ind, new_bfi_df, pop_1980,
                   msa_pop_1980, merged_pop_1980, pop_1980_agg, pop_2022,
                   merged_pop_2022, stale, run, invoked, none_at, ret>>
    /\ UNCHANGED <<geovars, tabvars, gdpvars, calls>>

\* getter.get_bfi
PipeGetBfi ==
    /\ pc = "get_bfi"
    /\ bfi_df' = get_bfi(disk[BfiFile])
    /\ Return(bfi_df', "get_bfi")
    /\ UNCHANGED <<msa_county, labor, all_ind, final_pop_1980, min_df_2022,
                   merged_all_ind, new_bfi_df, pop_1980, msa_pop_1980,
                   merged_pop_1980, pop_1980_agg, pop_2022,
                   merged_pop_2022, disk, dl, stale, run>>
    /\ UNCHANGED <<geovars, tabvars, gdpvars, calls>>

\* cleaner.clean_bfi
PipeCleanBfi ==
    /\ pc = "clean_bfi"
    /\ bfi_df' = clean_bfi(bfi_df)
    /\ Return(bfi_df', "clean_bfi")
    /\ UNCHANGED <<msa_county, labor, all_ind, final_pop_1980, min_df_2022,
                   merged_all_ind, new_bfi_df, pop_1980, msa_pop_1980,
                   merged_pop_1980, pop_1980_agg, pop_2022,
                   merged_pop_2022, disk, dl, stale, run>>
    /\ UNCHANGED <<geovars, tabvars, gdpvars, calls>>

\* getter.get_pop_1980
PipeGetPop1980 ==
    /\ pc = "get_pop_1980"
    /\ pop_1980' = get_pop_1980(disk["pop_1980.csv"])
    /\ Return(pop_1980', "get_pop_1980")
    /\ UNCHANGED <<bfi_df, msa_county, labor, all_ind, final_pop_1980,
                   min_df_2022, merged_all_ind, new_bfi_df, msa_pop_1980,
                   merged_pop_1980, pop_1980_agg, pop_2022,
                   merged_pop_2022, disk, dl, stale, run>>
    /\ UNCHANGED <<geovars, tabvars, gdpvars, calls>>

\* cleaner.clean_pop_1980
PipeCleanPop1980 ==
    /\ pc = "clean_pop_1980"
    /\ pop_1980' = clean_pop_1980(pop_1980)
    /\ Return(pop_1980', "clean_pop_1980")
    /\ UNCHANGED <<bfi_df, msa_county, labor, all_ind, final_pop_1980,
                   min_df_2022, merged_all_ind, new_bfi_df, msa_pop_1980,
                   merged_pop_1980, pop_1980_agg, pop_2022,
                   merged_pop_2022, disk, dl, stale, run>>
    /\ UNCHANGED <<geovars, tabvars, gdpvars, calls>>

\* getter.get_cbsa_county_crosswalk
PipeGetCrosswalk ==
    /\ pc = "get_cbsa_county_crosswalk"
    /\ msa_county' = get_cbsa_county_crosswalk(disk["cbsatocountycrosswalk.csv"])
    /\ Return(msa_county', "get_cbsa_county_crosswalk")
    /\ UNCHANGED <<bfi_df, labor, all_ind, final_pop_1980, min_df_2022,
                   merged_all_ind, new_bfi_df, pop_1980, msa_pop_1980,
                   merged_pop_1980, pop_1980_agg, pop_2022,
                   merged_pop_2022, disk, dl, stale, run>>
    /\ UNCHANGED <<geovars, tabvars, gdpvars, calls>>

\* cleaner.clean_cbsa_county_crosswalk
PipeCleanCrosswalk ==
    /\ pc = "clean_cbsa_county_crosswalk"
    /\ msa_county' = clean_cbsa_county_crosswalk(msa_county)
    /\ Return(msa_county', "clean_cbsa_county_crosswalk")
    /\ UNCHANGED <<bfi_df, labor, all_ind, final_pop_1980, min_df_2022,
                   merged_all_ind, new_bfi_df, pop_1980, msa_pop_1980,
                   merged_pop_1980, pop_1980_agg, pop_2022,
                   merged_pop_2022, disk, dl, stale, run>>
    /\ UNCHANGED <<geovars, tabvars, gdpvars, calls>>

\* merger.merge_pop_1980_with_cbsa
PipeMergePop1980WithCbsa ==
    /\ pc = "merge_pop_1980_with_cbsa"
    /\ msa_pop_1980' = merge_pop_1980_with_cbsa(pop_1980, msa_county)
    /\ Return(msa_pop_1980', "merge_pop_1980_with_cbsa")
    /\ UNCHANGED <<bfi_df, msa_county, labor, all_ind, final_pop_1980,
                   min_df_2022, merged_all_ind, new_bfi_df, pop_1980,
                   merged_pop_1980, pop_1980_agg, pop_2022,
                   merged_pop_2022, disk, dl, stale, run>>
    /\ UNCHANGED <<geovars, tabvars, gdpvars, calls>>

\* merger.merge_pop_1980_with_bfi
PipeMergePop1980WithBfi ==
    /\ pc = "merge_pop_1980_with_bfi"
    /\ merged_pop_1980' = merge_pop_1980_with_bfi(msa_pop_1980, bfi_df)
    /\ Return(merged_pop_1980', "merge_pop_1980_with_bfi")
    /\ UNCHANGED <<bfi_df, msa_county, labor, all_ind, final_pop_1980,
                   min_df_2022, merged_all_ind, new_bfi_df, pop_1980,
                   msa_pop_1980, pop_1980_agg, pop_2022, merged_pop_2022,
                   disk, dl, stale, run>>
    /\ UNCHANGED <<geovars, tabvars, gdpvars, calls>>

\* cleaner.aggregate_pop_1980
PipeAggregatePop1980 ==
    /\ pc = "aggregate_pop_1980"
    /\ pop_1980_agg' = aggregate_pop_1980(merged_pop_1980)
    /\ Return(pop_1980_agg', "aggregate_pop_1980")
    /\ UNCHANGED <<bfi_df, msa_county, labor, all_ind, final_pop_1980,
                   min_df_2022, merged_all_ind, new_bfi_df, pop_1980,
                   msa_pop_1980, merged_pop_1980, pop_2022,
                   merged_pop_2022, disk, dl, stale, run>>
    /\ UNCHANGED <<geovars, tabvars, gdpvars, calls>>

\* cleaner.transform_pop_1980_to_final
PipeTransformPop1980 ==
    /\ pc = "transform_pop_1980_to_final"
    /\ final_pop_1980' = transform_pop_1980_to_final(pop_1980_agg)
    /\ Return(final_pop_1980', "transform_pop_1980_to_final")
    /\ UNCHANGED <<bfi_df, msa_county, labor, all_ind, min_df_2022,
                   merged_all_ind, new_bfi_df, pop_1980, msa_pop_1980,
                   merged_pop_1980, pop_1980_agg, pop_2022,
                   merged_pop_2022, disk, dl, stale, run>>
    /\ UNCHANGED <<geovars, tabvars, gdpvars, calls>>

\* cleaner.rename_pop_1980_columns
PipeRenamePop1980 ==
    /\ pc = "rename_pop_1980_columns"
    /\ final_pop_1980' = rename_pop_1980_columns(final_pop_1980)
    /\ Return(final_pop_1980', "rename_pop_1980_columns")
    /\ UNCHANGED <<bfi_df, msa_county, labor, all_ind, min_df_2022,
                   merged_all_ind, new_bfi_df, pop_1980, msa_pop_1980,
                   merged_pop_1980, pop_1980_agg, pop_2022,
                   merged_pop_2022, disk, dl, stale, run>>
    /\ UNCHANGED <<geovars, tabvars, gdpvars, calls>>

\* getter.get_pop_2022
PipeGetPop2022 ==
    /\ pc = "get_pop_2022"
    /\ pop_2022' = get_pop_2022(disk["pop_2022.csv"])
    /\ Return(pop_2022', "get_pop_2022")
    /\ UNCHANGED <<bfi_df, msa_county, labor, all_ind, final_pop_1980,
                   min_df_2022, merged_all_ind, new_bfi_df, pop_1980,
                   msa_pop_1980, merged_pop_1980, pop_1980_agg,
                   merged_pop_2022, disk, dl, stale, run>>
    /\ UNCHANGED <<geovars, tabvars, gdpvars, calls>>

\* cleaner.clean_pop_2022
PipeCleanPop2022 ==
    /\ pc = "clean_pop_2022"
    /\ pop_2022' = clean_pop_2022(pop_2022)
    /\ Return(pop_2022', "clean_pop_2022")
    /\ UNCHANGED <<bfi_df, msa_county, labor, all_ind, final_pop_1980,
                   min_df_2022, merged_all_ind, new_bfi_df, pop_1980,
                   msa_pop_1980, merged_pop_1980, pop_1980_agg,
                   merged_pop_2022, disk, dl, stale, run>>
    /\ UNCHANGED <<geovars, tabvars, gdpvars, calls>>

\* merger.merge_pop_2022_with_bfi
PipeMergePop2022WithBfi ==
    /\ pc = "merge_pop_2022_with_bfi"
    /\ merged_pop_2022' = merge_pop_2022_with_bfi(pop_2022, bfi_df)
    /\ Return(merged_pop_2022', "merge_pop_2022_with_bfi")
    /\ UNCHANGED <<bfi_df, msa_county, labor, all_ind, final_pop_1980,
                   min_df_2022, merged_all_ind, new_bfi_df, pop_1980,
                   msa_pop_1980, merged_pop_1980, pop_1980_agg, pop_2022,
                   disk, dl, stale, run>>
    /\ UNCHANGED <<geovars, tabvars, gdpvars, calls>>

\* cleaner.organize_pop_2022_minimal
PipeOrganizePop2022 ==
    /\ pc = "organize_pop_2022_minimal"
    /\ min_df_2022' = organize_pop_2022_minimal(merged_pop_2022)
    /\ Return(min_df_2022', "organize_pop_2022_minimal")
    /\ UNCHANGED <<bfi_df, msa_county, labor, all_ind, final_pop_1980,
                   merged_all_ind, new_bfi_df, pop_1980, msa_pop_1980,
                   merged_pop_1980, pop_1980_agg, pop_2022,
                   merged_pop_2022, disk, dl, stale, run>>
    /\ UNCHANGED <<geovars, tabvars, gdpvars, calls>>

\* merger.combine_industries
PipeCombineIndustries ==
    /\ pc = "combine_industries"
    /\ all_ind' = combine_industries(get_industry(disk["labor_1980.csv"]),
                                    get_industry(disk["labor_2022.csv"]))
    /\ Return(all_ind', "combine_industries")
    /\ UNCHANGED <<bfi_df, msa_county, labor, final_pop_1980, min_df_2022,
                   merged_all_ind, new_bfi_df, pop_1980, msa_pop_1980,
                   merged_pop_1980, pop_1980_agg, pop_2022,
                   merged_pop_2022, disk, dl, stale, run>>
    /\ UNCHANGED <<geovars, tabvars, gdpvars, calls>>

\* merger.merge_industry_with_msa
PipeMergeIndustryWithMsa ==
    /\ pc = "merge_industry_with_msa"
    /\ merged_all_ind' = merge_industry_with_msa(all_ind, msa_county, bfi_df)
    /\ Return(merged_all_ind', "merge_industry_with_msa")
    /\ UNCHANGED <<bfi_df, msa_county, labor, all_ind, final_pop_1980,
                   min_df_2022, new_bfi_df, pop_1980, msa_pop_1980,
                   merged_pop_1980, pop_1980_agg, pop_2022,
                   merged_pop_2022, disk, dl, stale, run>>
    /\ UNCHANGED <<geovars, tabvars, gdpvars, calls>>

\* builder.build_bfi_pop_labor(..., output_path): the master table is built,
\* then written; a failure of either makes the stage return None
PipeBuildBfiPopLabor ==
    /\ pc = "build_bfi_pop_labor"
    /\ \E ok \in BOOLEAN :
         LET built == build_bfi_pop_labor(bfi_df, final_pop_1980, min_df_2022,
                                          merged_all_ind)
         IN  /\ disk' = IF built = None THEN disk ELSE to_csv(disk, built, ok, run)
             /\ new_bfi_df' = IF built = None \/ ~ok THEN None ELSE built
    /\ Return(new_bfi_df', "build_bfi_pop_labor")
    /\ UNCHANGED <<bfi_df, msa_county, labor, all_ind, final_pop_1980,
                   min_df_2022, merged_all_ind, pop_1980, msa_pop_1980,
                   merged_pop_1980, pop_1980_agg, pop_2022,
                   merged_pop_2022, dl, stale, run>>
    /\ UNCHANGED <<geovars, tabvars, gdpvars, calls>>

\* make_msa_tables (twice), build_msa_industry_tables, return of the tables
PipeReturnTables ==
    /\ pc = "make_msa_tables"
    /\ ret' = ReturnValue(none_at)
    /\ pc' = "returned"
    /\ UNCHANGED <<bfi_df, msa_county, labor, all_ind, final_pop_1980,
                   min_df_2022, merged_all_ind, new_bfi_df, pop_1980,
                   msa_pop_1980, merged_pop_1980, pop_1980_agg, pop_2022,
                   merged_pop_2022, disk, dl, stale, run, invoked, none_at>>
    /\ msa_tables_1980' = make_msa_tables(final_pop_1980)
    /\ msa_tables_2022' = make_msa_tables(min_df_2022)
    /\ labor_table' = build_msa_industry_tables(merged_all_ind)
    /\ UNCHANGED <<geovars, gdpvars, calls>>

\* run_full_pipeline is called again on the same data directory
PipeRunAgain ==
    /\ pc = "returned"
    /\ run < MaxRuns
    /\ run' = run + 1
    /\ stale' = {f \in RawFiles : disk[f] # NoFile}
    /\ dl' = [f \in RawFiles |-> "none"]
    /\ invoked' = <<>>
    /\ none_at' = ""
    /\ ret' = "running"
    /\ pc' = "get_census_pop"
    /\ bfi_df' = None
    /\ msa_county' = None
    /\ labor' = None
    /\ all_ind' = None
    /\ final_pop_1980' = None
    /\ min_df_2022' = None
    /\ merged_all_ind' = None
    /\ new_bfi_df' = None
    /\ pop_1980' = None
    /\ msa_pop_1980' = None
    /\ merged_pop_1980' = None
    /\ pop_1980_agg' = None
    /\ pop_2022' = None
    /\ merged_pop_2022' = None
    /\ msa_tables_1980' = <<>>
    /\ msa_tables_2022' = <<>>
    /\ labor_table' = <<>>
    /\ UNCHANGED <<disk, geovars, gdpvars, calls>>

NextPipe ==
    \/ PipeGetCensusPop
    \/ PipeGetUblsLabor
    \/ PipeGetUberCrosswalk
    \/ PipeGetBfi
    \/ PipeCleanBfi
    \/ PipeGetPop1980
    \/ PipeCleanPop1980
    \/ PipeGetCrosswalk
    \/ PipeCleanCrosswalk
    \/ PipeMergePop1980WithCbsa
    \/ PipeMergePop1980WithBfi
    \/ PipeAggregatePop1980
    \/ PipeTransformPop1980
    \/ PipeRenamePop1980
    \/ PipeGetPop2022
    \/ PipeCleanPop2022
    \/ PipeMergePop2022WithBfi
    \/ PipeOrganizePop2022
    \/ PipeCombineIndustries
    \/ PipeMergeIndustryWithMsa
    \/ PipeBuildBfiPopLabor
    \/ PipeReturnTables
    \/ PipeRunAgain

SpecPipe == InitPipe /\ [][NextPipe]_vars

Expected(f) ==
    CASE f = BfiFile -> {"metro13", "metro_title"}
      [] f = "pop_1980.csv" -> {"Year of Estimate", "FIPS State and County Codes"}
      [] f = "pop_2022.csv" -> {"YEAR", "CBSA", "NAME", "AGEGRP"}
      [] f \in {"labor_1980.csv", "labor_2022.csv"} -> {"area_fips", "own_title"}
      [] f = "cbsatocountycrosswalk.csv" -> {"fipst", "fipscounty", "cbsa", "cbsaname"}

\* C6: when a file lacks a column that a stage expects, the stage returns
\* None and the run aborts before the master table is written: a run that
\* wrote merged_bfi.csv read only files with all expected columns.
C6_MissingColumnAborts ==
    MasterWritten =>
        \A f \in RawFiles \cup {BfiFile} : Expected(f) \subseteq Columns(disk[f])

\* C8 as stated: a run in which the download of a raw file failed writes no
\* master table, whatever the earlier runs left on disk.
C8_FailedDownloadAborts ==
    \A f \in RawFiles : dl[f] = "failed" => ~MasterWritten

\* C8 amended: when the download of a raw file failed in a run and no earlier
\* run left that file on disk, the stage that reads it returns None as soon
\* as the run reaches it, and the run writes no master table.
C8_FailedDownloadNoStaleFile ==
    \A f \in RawFiles :
        (dl[f] = "failed" /\ f \notin stale) =>
            /\ ~MasterWritten
            /\ Reader(f) \in Range(invoked) => none_at = Reader(f)

\* in a second run the 2022 population download fails, no earlier run left
\* pop_2022.csv, and get_pop_2022 returns None after eleven stages passed
C8_Witness ==
    /\ run = 2
    /\ dl["pop_2022.csv"] = "failed"
    /\ "pop_2022.csv" \notin stale
    /\ "pop_1980.csv" \in stale
    /\ none_at = "get_pop_2022"

\* C19: every row merge_industry_with_msa returns carries the ownership
\* label own_title = "Total Covered", so no row of another ownership
\* category is handed to build_bfi_pop_labor and build_msa_industry_tables.
C19_OnlyTotalCovered ==
    merged_all_ind # None =>
        /\ "own_title" \in Columns(merged_all_ind)
        /\ \A r \in Range(merged_all_ind.rows) : r.own_title = "Total Covered"

\* C23: a 1980 population row of a county whose code is a number below 10000
\* and a crosswalk row of the same county give a row of the result of
\* merge_pop_1980_with_cbsa, with the metro of that crosswalk row.
C23_LeadingZeroCountyMatched ==
    msa_pop_1980 # None =>
        \A r \in Range(pop_1980.rows), x \in Range(msa_county.rows) :
            LET county == to_numeric(r["FIPS State and County Codes"])
            IN  (county # NA /\ county < 10000
                    /\ county = to_numeric(x.fipscounty)) =>
                    \E m \in Range(msa_pop_1980.rows) :
                        /\ to_numeric(m.fips) = county
                        /\ m.cbsacode = x.cbsacode
                        /\ m["Race/Sex Indicator"] = r["Race/Sex Indicator"]

\* the metros of a table
Titles(df) == {r.metro_title : r \in Range(df.rows)}

\* C25: when no stage of the run returned None, the three dictionaries hold
\* a table for every metro of the final 1980 table, of the final 2022 table
\* and of the industry rows.
C25_TableForEveryMetro ==
    (pc = "returned" /\ none_at = "") =>
        /\ {msa_tables_1980[i].msa : i \in 1..Len(msa_tables_1980)}
              = Titles(final_pop_1980)
        /\ {msa_tables_2022[i].msa : i \in 1..Len(msa_tables_2022)}
              = Titles(min_df_2022)
        /\ DOMAIN labor_table = Titles(merged_all_ind)

\* the resources of the URL maps of get_census_pop and get_ubls_labor
UrlMapFiles == {"pop_1980.csv", "pop_2022.csv", "labor_1980.csv",
                "labor_2022.csv"}

\* C26: once get_census_pop and get_ubls_labor have returned, every resource
\* of their URL maps has been requested, whatever the outcome of the request
\* for another resource.
C26_EveryResourceRequested ==
    pc \notin {"get_census_pop", "get_ubls_labor"} =>
        \A f \in UrlMapFiles : dl[f] \in {"ok", "failed"}

(***************************************************************************)
(* dataprep_utils.py: build_combined_geojson.  A feature is a record of    *)
(* its identifier property and its geometry, a set of cells of the plane.  *)
(***************************************************************************)
MaxMsaFeatures == 2

MaxStateFeatures == 2

MaxGeoRuns == 2

MsaFeature(code, cells) == [CBSAFP |-> code, geometry |-> cells]

StateFeature(code, cells) == [STATEFP |-> code, geometry |-> cells]

\* features of the CBSA GeoJSON and of the states GeoJSON
MsaCands == <<MsaFeature(T10420, {1, 2}), MsaFeature(T12060, {3}),
              MsaFeature(T99999, {5})>>

StateCands == <<StateFeature(<<"3", "9">>, {1, 2, 4}),
                StateFeature(<<"1", "3">>, {3}),
                StateFeature(<<"0", "1">>, {5, 6}),
                StateFeature(<<"1">>, {7}),
                StateFeature(<<"0", "0">>, {8})>>

\* metro13 values the employment data may hold
DataMetros == {10420, 12060, 55555}

\* str.lstrip("0")
RECURSIVE lstrip(_)
lstrip(s) == IF Len(s) > 0 /\ Head(s) = "0" THEN lstrip(Tail(s)) ELSE s

\* df_long["metro13"].astype(str).unique()
msa_ids(df) == {astype_str(m) : m \in df}

\* gdf_msas[gdf_msas["CBSAFP"].astype(str).isin(msa_ids)]
gdf_msas_filtered(msas, df) ==
    SelectSeq(msas, LAMBDA f : f.CBSAFP \in msa_ids(df))

\* gdf_states.overlay(msas, how="identity") keeps the ground of the metros
overlay_identity(states, msas) == states

\* gdf_states.overlay(msas, how="difference"): each state without the cells
\* of the given metro features; a state left empty is dropped
overlay_difference(states, msas) ==
    LET covered == UNION {f.geometry : f \in Range(msas)}
    IN  SelectSeq(MapSeq(states,
                         LAMBDA f : [f EXCEPT !.geometry = @ \ covered]),
                  LAMBDA f : f.geometry # {})

\* feat["properties"]["region_id"] = ... for the metro and the state features
msa_region_id(f) == f @@ [region_id |-> f.CBSAFP]

state_region_id(f) == f @@ [region_id |-> lstrip(f.STATEFP)]

\* msa_geo["features"] + states_geo["features"] after the normalisation
combined_geo(msa_geo, states_geo) ==
    MapSeq(msa_geo, msa_region_id) \o MapSeq(states_geo, state_region_id)

\* a GeoJSON file: {"type": "FeatureCollection", "features": [...]}
FeatureCollection(fs) == [features |-> fs]

\* how the conversion of one shapefile directory ends: written, directory
\* missing, no .shp in it, read_file raises, to_file raises
ConvertOutcomes == {"ok", "no_dir", "no_shp", "unreadable", "write_failed"}

\* one pass of the loop of convert_shapefiles_to_geojson: the GeoJSON file is
\* written when every step passes; every failure is logged and skipped
\* (continue), which leaves the file as it was
convert_one(out, gdf, outcome) ==
    IF outcome = "ok" THEN FeatureCollection(gdf) ELSE out

\* with combined_path.open("a"): the collection is appended to the file
json_dump_append(f, obj) ==
    IF f = NoFile THEN FeatureCollection(obj)
    ELSE FeatureCollection(f.features \o obj)

\* with combined_path.open("w"): json.dump(combined_geo, f) replaces the file
json_dump(f, obj) == FeatureCollection(obj)

\* the steps of build_combined_geojson that can raise before the clipped
\* states file is written
ClipOutcomes == {"ok", "read_failed", "overlay_failed", "write_failed"}

\* the steps that can raise between the reload and the combined write
CombineOutcomes == {"ok", "reload_failed", "write_failed"}


InitGeo ==
    /\ pc = "g_inputs"
    /\ bfi_df = None
    /\ msa_county = None
    /\ labor = None
    /\ all_ind = None
    /\ final_pop_1980 = None
    /\ min_df_2022 = None
    /\ merged_all_ind = None
    /\ new_bfi_df = None
    /\ NoTables
    /\ pop_1980 = None
    /\ msa_pop_1980 = None
    /\ merged_pop_1980 = None
    /\ pop_1980_agg = None
    /\ pop_2022 = None
    /\ merged_pop_2022 = None
    /\ NoPipeline
    /\ NoGeo
    /\ NoGdp
    /\ NoCalls

\* the employment data, the flag clipped_states_keep and the two extracted
\* shapefile distributions the geospatial stage is run on
GeoInputs ==
    /\ pc = "g_inputs"
    /\ df_long' \in SUBSET DataMetros
    /\ clipped_states_keep' \in BOOLEAN
    /\ \E c \in Pick(MsaCands, MaxMsaFeatures),
          s \in Pick(StateCands, MaxStateFeatures) :
          shp_dirs' = [cbsa |-> c, states |-> s]
    /\ geo_run' = 1
    /\ pc' = "g_convert"
    /\ UNCHANGED <<msa_path, states_path, clipped_states_path, combined_path,
                   geo_failed, geo_err, geo_wrote, prev_combined, datavars,
                   pipevars>>

\* convert_shapefiles_to_geojson: both keys of shp_dirs; it returns None
\* whatever happened
GeoConvert ==
    /\ pc = "g_convert"
    /\ \E c, s \in ConvertOutcomes :
          /\ msa_path' = convert_one(msa_path, shp_dirs.cbsa, c)
          /\ states_path' = convert_one(states_path, shp_dirs.states, s)
          /\ geo_failed' = {k \in {"cbsa", "states"} :
                               (IF k = "cbsa" THEN c ELSE s) # "ok"}
    /\ pc' = "g_clip"
    /\ UNCHANGED <<df_long, clipped_states_path, combined_path, shp_dirs,
                   clipped_states_keep, geo_run, geo_err, geo_wrote,
                   prev_combined, datavars, pipevars>>

\* build_combined_geojson, to the write of the clipped states file; an
\* exception of read_file, overlay or to_file leaves the function
GeoClipStates ==
    /\ pc = "g_clip"
    /\ \E o \in ClipOutcomes :
          IF msa_path = NoFile \/ states_path = NoFile \/ o # "ok"
          THEN /\ geo_err' = TRUE
               /\ geo_failed' = geo_failed \cup {"clip"}
               /\ pc' = "g_done"
               /\ UNCHANGED clipped_states_path
          ELSE /\ clipped_states_path' = FeatureCollection(
                      overlay_difference(states_path.features,
                          gdf_msas_filtered(msa_path.features, df_long)))
               /\ pc' = "g_combine"
               /\ UNCHANGED <<geo_err, geo_failed>>
    /\ UNCHANGED <<df_long, msa_path, states_path, combined_path, shp_dirs,
                   clipped_states_keep, geo_run, geo_wrote, prev_combined,
                   datavars, pipevars>>

\* build_combined_geojson, from the reload of the two files to the end: the
\* combined file is written and the clipped states file removed unless
\* clipped_states_keep; an exception leaves both files as they are
GeoCombine ==
    /\ pc = "g_combine"
    /\ \E o \in CombineOutcomes :
          IF o # "ok"
          THEN /\ geo_err' = TRUE
               /\ geo_failed' = geo_failed \cup {"combine"}
               /\ UNCHANGED <<combined_path, clipped_states_path, geo_wrote>>
          ELSE /\ combined_path' = json_dump(combined_path,
                      combined_geo(msa_path.features,
                                   clipped_states_path.features))
               /\ clipped_states_path' =
                      IF clipped_states_keep THEN clipped_states_path
                      ELSE NoFile
               /\ geo_wrote' = TRUE
               /\ UNCHANGED <<geo_err, geo_failed>>
    /\ pc' = "g_done"
    /\ UNCHANGED <<df_long, msa_path, states_path, shp_dirs,
                   clipped_states_keep, geo_run, prev_combined, datavars,
                   pipevars>>

\* the geospatial stage is run again on the same directories
GeoRunAgain ==
    /\ pc = "g_done"
    /\ geo_run < MaxGeoRuns
    /\ geo_run' = geo_run + 1
    /\ geo_failed' = {}
    /\ geo_err' = FALSE
    /\ geo_wrote' = FALSE
    /\ prev_combined' = NoFile
    /\ pc' = "g_convert"
    /\ UNCHANGED <<df_long, msa_path, states_path, clipped_states_path,
                   combined_path, shp_dirs, clipped_states_keep, datavars,
                   pipevars>>

\* build_combined_geojson is called a second time in succession with the
\* same arguments, after a call that returned
GeoBuildAgain ==
    /\ pc = "g_done"
    /\ geo_run < MaxGeoRuns
    /\ geo_wrote
    /\ geo_run' = geo_run + 1
    /\ geo_failed' = {}
    /\ geo_err' = FALSE
    /\ geo_wrote' = FALSE
    /\ prev_combined' = combined_path
    /\ pc' = "g_clip"
    /\ UNCHANGED <<df_long, msa_path, states_path, clipped_states_path,
                   combined_path, shp_dirs, clipped_states_keep, datavars,
                   pipevars>>

NextGeo ==
    \/ GeoInputs
    \/ GeoConvert
    \/ GeoClipStates
    \/ GeoCombine
    \/ GeoRunAgain
    \/ GeoBuildAgain

SpecGeo == InitGeo /\ [][NextGeo]_vars

(***************************************************************************)
(* Properties of the combined GeoJSON                                      *)
(***************************************************************************)
\* the features of the combined file the current run wrote
Combined == IF geo_wrote THEN combined_path.features ELSE <<>>

\* C9: a feature of the combined GeoJSON that is a metro (has a CBSAFP) has
\* the id of a metro of the employment data; every other feature is a state
\* remainder.
C9_OnlyMetrosWithData ==
    pc = "g_done" =>
        \A f \in Range(Combined) :
            IF "CBSAFP" \in DOMAIN f THEN f.CBSAFP \in msa_ids(df_long)
            ELSE "STATEFP" \in DOMAIN f

\* C10: every feature of the combined GeoJSON has a non-empty region_id and
\* no two features share one (the CBSAFP values of the input are pairwise
\* distinct, and so are its STATEFP values).
C10_RegionIdsUnique ==
    pc = "g_done" =>
        /\ \A f \in Range(Combined) : Len(f.region_id) > 0
        /\ \A i, j \in 1..Len(Combined) :
              Combined[i].region_id = Combined[j].region_id => i = j

\* C11: after build_combined_geojson no cell of the plane lies in a state
\* feature of the combined collection and in a metro polygon of the CBSA
\* file whose id is in the employment data.
C11_StatesDisjointFromDataMetros ==
    (pc = "g_done" /\ geo_wrote) =>
        \A s \in Range(Combined), m \in Range(msa_path.features) :
            ("STATEFP" \in DOMAIN s /\ m.CBSAFP \in msa_ids(df_long))
                => s.geometry \cap m.geometry = {}

\* a state that held a metro of the employment data and kept some of its
\* ground is in the combined collection next to that metro
C11_Witness ==
    /\ pc = "g_done"
    /\ geo_wrote
    /\ \E s \in Range(states_path.features),
          m \in Range(msa_path.features) :
          /\ m.CBSAFP \in msa_ids(df_long)
          /\ m.geometry \subseteq s.geometry
          /\ \E c \in Range(Combined) :
                /\ "STATEFP" \in DOMAIN c
                /\ c.STATEFP = s.STATEFP
                /\ c.geometry = s.geometry \ m.geometry
                /\ c.geometry # {}

\* C12: a run of the geospatial stage in which a step failed ends with an
\* error at its caller and has not written the combined GeoJSON.
C12_FailedStepAborts ==
    (pc = "g_done" /\ geo_failed # {}) => (geo_err /\ ~geo_wrote)

\* C13: two calls of build_combined_geojson in succession on the same inputs
\* write combined collections with the same number of features and the same
\* set of region_id values.
C13_Idempotent ==
    (pc = "g_done" /\ geo_wrote /\ prev_combined # NoFile) =>
        /\ Len(combined_path.features) = Len(prev_combined.features)
        /\ {f.region_id : f \in Range(combined_path.features)}
              = {f.region_id : f \in Range(prev_combined.features)}

\* the second call in succession wrote a collection with a metro and a
\* clipped state, after the first call removed its clipped states file
C13_Witness ==
    /\ pc = "g_done"
    /\ geo_wrote
    /\ prev_combined # NoFile
    /\ ~clipped_states_keep
    /\ \E f, g \in Range(combined_path.features) :
          "CBSAFP" \in DOMAIN f /\ "STATEFP" \in DOMAIN g

(***************************************************************************)
(* dataprep_utils.py: download_bea_gdp_percent_change.  A float cell is    *)
(* kept in tenths, the unit of round(1).                                   *)
(***************************************************************************)
MaxGdpYears == 3

MaxGdpRows == 2

\* the TimePeriod values of the request, in the order of sorted()
YearNames == <<"2018", "2019", "2020", "2021", "2022">>

\* the metros of the BEA answer with their DataValue texts, year by year
GdpCands ==
    <<[GeoFips |-> T10420, GeoName |-> "Akron",
       levels |-> << <<"1", "0", "0">>, <<"1", "1", "0">>, <<"9", "9">>,
                     <<"1", "0", "0">>, <<"3", "3">> >>],
      [GeoFips |-> T12060, GeoName |-> "Atlanta",
       levels |-> << <<"2", "0", "0">>, <<"2", "0", "0">>, <<"1", "5", "0">>,
                     <<"1", "5", "1">>, <<"7">> >>],
      [GeoFips |-> T99999, GeoName |-> "Nowhere",
       levels |-> << <<"9", "0">>, <<"(", "N", "A", ")">>, <<"6", "0">>,
                     <<"6", "1">>, <<"6", "1">> >>],
      [GeoFips |-> T55555, GeoName |-> "Elsewhere",
       levels |-> << <<"1", "6">>, <<"1", "7">>, <<"1", "6">>, <<"8">>,
                     <<"1", "6">> >>],
      [GeoFips |-> T39133, GeoName |-> "Portage",
       levels |-> << <<"3">>, <<"4">>, <<"7">>, <<"7">>, <<"1", "0">> >>],
      [GeoFips |-> T39153, GeoName |-> "Summit",
       levels |-> << <<"8", "0", "0">>, <<"8", "0", "1">>, <<"8", "0", "0">>,
                     <<"(", "N", "A", ")">>, <<"8", "0", "0">> >>]>>

\* data["BEAAPI"]["Results"]["Data"] for the metros ms and the first n years
BeaData(ms, n) ==
    Flatten(MapSeq(ms, LAMBDA m :
        [k \in 1..n |-> [GeoFips |-> m.GeoFips, GeoName |-> m.GeoName,
                         TimePeriod |-> YearNames[k],
                         DataValue |-> m.levels[k]]]))

\* pd.to_numeric(rows_df["DataValue"], errors="coerce") on one cell
DataValueOf(s) == IF IsNumeric(s) THEN 10 * ParseDigits(s) ELSE NaN

\* rows_df.pivot_table(index=["GeoFips", "GeoName"], columns="TimePeriod",
\* values="DataValue", aggfunc="first").reset_index(): one row per metro, one
\* column per year that holds a value (the rows stand in the order of their
\* first appearance; pivot_table sorts them)
pivot_table(rows) ==
    LET Key(r) == [GeoFips |-> r.GeoFips, GeoName |-> r.GeoName]
        valued == SelectSeq(rows, LAMBDA r : DataValueOf(r.DataValue) # NaN)
        index == Distinct(MapSeq(valued, Key))
        years == SelectSeq(YearNames, LAMBDA y :
                     \E i \in 1..Len(valued) : valued[i].TimePeriod = y)
        Cell(k, y) ==
            LET m == SelectSeq(valued,
                               LAMBDA r : Key(r) = k /\ r.TimePeriod = y)
            IN  IF Len(m) = 0 THEN NaN ELSE DataValueOf(m[1].DataValue)
        Row(k) == [c \in {"GeoFips", "GeoName"} \cup Range(years) |->
                      IF c \in {"GeoFips", "GeoName"} THEN k[c]
                      ELSE Cell(k, c)]
    IN  Table(<<"GeoFips", "GeoName">> \o years, MapSeq(index, Row))

\* sorted([c for c in pivot_df.columns if str(c).isdigit()])
year_cols(df) == SelectSeq(YearNames, LAMBDA y : y \in Columns(df))

\* ((curr - prev) / prev * 100).round(1) on one row, in tenths
percent_change(curr, prev) ==
    IF curr = NaN \/ prev = NaN \/ prev = 0 THEN NaN
    ELSE RoundSigned((curr - prev) * 1000, prev)

\* the loop reading the columns it has already replaced
in_place(base_df, pivot_df) == pivot_df

\* the table the loop reads the levels from: base_df = pivot_df.copy()
level_data(base_df, pivot_df) == base_df

\* for i in range(1, len(year_cols)): pivot_df[curr] = ...
RECURSIVE percent_loop(_, _, _, _)
percent_loop(pivot_df, base_df, ycols, i) ==
    IF i > Len(ycols) THEN pivot_df
    ELSE
      LET src == level_data(base_df, pivot_df)
          curr == ycols[i]
          prev == ycols[i - 1]
          rows == [j \in 1..Len(pivot_df.rows) |->
                     [pivot_df.rows[j] EXCEPT ![curr] =
                         percent_change(src.rows[j][curr], src.rows[j][prev])]]
      IN  percent_loop(Table(pivot_df.cols, rows), base_df, ycols, i + 1)

\* the table download_bea_gdp_percent_change computes from the answer:
\* None for an answer without rows
gdp_percent_change(data) ==
    IF Len(data) = 0 THEN None
    ELSE
      LET pivot_df == pivot_table(data)
          ycols == year_cols(pivot_df)
      IN  IF Len(ycols) = 0 THEN None
          ELSE Drop(percent_loop(pivot_df, pivot_df, ycols, 2), {ycols[1]})

InitGdp ==
    /\ pc = "gdp_request"
    /\ bfi_df = None
    /\ msa_county = None
    /\ labor = None
    /\ all_ind = None
    /\ final_pop_1980 = None
    /\ min_df_2022 = None
    /\ merged_all_ind = None
    /\ new_bfi_df = None
    /\ NoTables
    /\ pop_1980 = None
    /\ msa_pop_1980 = None
    /\ merged_pop_1980 = None
    /\ pop_1980_agg = None
    /\ pop_2022 = None
    /\ merged_pop_2022 = None
    /\ NoPipeline
    /\ NoGeo
    /\ NoGdp
    /\ NoCalls

\* requests.get(BASE_URL, ...); response.json(): the answer of the BEA API,
\* or an exception
BeaResponds ==
    /\ pc = "gdp_request"
    /\ \/ /\ \E ms \in Pick(GdpCands, MaxGdpRows), n \in 1..MaxGdpYears :
                gdp_data' = [Data |-> BeaData(ms, n)]
          /\ pc' = "gdp_compute"
          /\ UNCHANGED gdp_df
       \/ /\ gdp_data' = None
          /\ gdp_df' = None
          /\ pc' = "gdp_done"
    /\ UNCHANGED <<gdp_file, gdp_merged, bfi_df, msa_county, labor, all_ind,
                   final_pop_1980, min_df_2022, merged_all_ind, new_bfi_df,
                   popvars, tabvars, pipevars, geovars, calls>>

\* download_bea_gdp_percent_change after the answer: pivot, percent change,
\* drop of the first year, to_csv
DownloadBeaGdpPercentChange ==
    /\ pc = "gdp_compute"
    /\ LET df == gdp_percent_change(gdp_data.Data)
       IN  IF df = None
           THEN gdp_df' = None /\ UNCHANGED gdp_file
           ELSE \E written \in BOOLEAN :
                   IF written
                   THEN gdp_df' = df /\ gdp_file' = df
                   ELSE gdp_df' = None /\ UNCHANGED gdp_file
    /\ pc' = "gdp_done"
    /\ UNCHANGED <<gdp_merged, gdp_data, bfi_df, msa_county, labor, all_ind,
                   final_pop_1980, min_df_2022, merged_all_ind, new_bfi_df,
                   popvars, tabvars, pipevars, geovars, calls>>

NextGdp ==
    \/ BeaResponds
    \/ DownloadBeaGdpPercentChange

SpecGdp == InitGdp /\ [][NextGdp]_vars

\* the levels of the answer, metro by metro
Levels == pivot_table(gdp_data.Data)

\* C17: every year column after the first holds
\* round((level[curr] - level[prev]) / level[prev] * 100, 1) of the
\* downloaded levels of its row, and the first year column is gone.
C17_PercentChangeFromLevels ==
    (pc = "gdp_done" /\ gdp_df # None) =>
        LET ycols == year_cols(Levels)
        IN  /\ gdp_df.cols = <<"GeoFips", "GeoName">> \o Tail(ycols)
            /\ Len(gdp_df.rows) = Len(Levels.rows)
            /\ \A j \in 1..Len(gdp_df.rows), i \in 2..Len(ycols) :
                  LET curr == Levels.rows[j][ycols[i]]
                      prev == Levels.rows[j][ycols[i - 1]]
                  IN  gdp_df.rows[j][ycols[i]] =
                         IF curr = NaN \/ prev = NaN THEN NaN
                         ELSE RoundSigned((curr - prev) * 1000, prev)

\* the levels 100, 110, 99 of three consecutive years gave 10.0 and -10.0
C17_Witness ==
    /\ pc = "gdp_done"
    /\ gdp_df # None
    /\ year_cols(Levels) = <<"2018", "2019", "2020">>
    /\ gdp_df.cols = <<"GeoFips", "GeoName", "2019", "2020">>
    /\ \E j \in 1..Len(gdp_df.rows) :
          /\ Levels.rows[j]["2018"] = 1000
          /\ Levels.rows[j]["2019"] = 1100
          /\ Levels.rows[j]["2020"] = 990
          /\ gdp_df.rows[j]["2019"] = 100
          /\ gdp_df.rows[j]["2020"] = 0 - 100

(***************************************************************************)
(* build_msa_industry_tables on the tables merge_industry_with_msa can     *)
(* return                                                                  *)
(***************************************************************************)
MaxIndRows == 3

\* rows of merged_all_ind: county rows of "Total Covered" with their metro
MergedIndRow(code, title, yr, estabs, emp, wages, wkly) ==
    [year |-> yr, own_title |-> "Total Covered",
     annual_avg_estabs_count |-> estabs, annual_avg_emplvl |-> emp,
     total_annual_wages |-> wages, annual_avg_wkly_wage |-> wkly,
     metro13 |-> code, metro_title |-> title]

MergedIndCands == <<MergedIndRow(T10420, "Akron", 1980, 2, 100, 1000, 10),
                    MergedIndRow(T10420, "Akron", 1980, 1, 50, 500, 13),
                    MergedIndRow(T10420, "Akron", 2000, 9, 120, 900, 20),
                    MergedIndRow(T10420, "Akron", 2022, 4, 200, 3000, 15),
                    MergedIndRow(T12060, "Atlanta", 1980, 0, 0, 0, 0),
                    MergedIndRow(T12060, "Atlanta", 2022, 3, 0, 10, 7),
                    MergedIndRow(T99999, "Nowhere", 2022, 1, 1, 1, 1)>>

MergedIndCols == <<"year", "own_title", "annual_avg_estabs_count",
                   "annual_avg_emplvl", "total_annual_wages",
                   "annual_avg_wkly_wage", "metro13", "metro_title">>

\* merged_all_ind of a labor file without the establishment counts
NoEstabs(t) ==
    Table(SeqMinus(t.cols, {"annual_avg_estabs_count"}),
          MapSeq(t.rows, LAMBDA r : DropCols(r, {"annual_avg_estabs_count"})))

InitInd ==
    /\ pc = "i_start"
    /\ bfi_df = None
    /\ msa_county = None
    /\ labor = None
    /\ all_ind = None
    /\ final_pop_1980 = None
    /\ min_df_2022 = None
    /\ \E t \in Tables(MergedIndCols, MergedIndCands, MaxIndRows) :
          merged_all_ind \in {t, NoEstabs(t)}
    /\ new_bfi_df = None
    /\ NoTables
    /\ pop_1980 = None
    /\ msa_pop_1980 = None
    /\ merged_pop_1980 = None
    /\ pop_1980_agg = None
    /\ pop_2022 = None
    /\ merged_pop_2022 = None
    /\ NoPipeline
    /\ NoGeo
    /\ NoGdp
    /\ NoCalls

\* builder.build_msa_industry_tables(merged_all_ind)
BuildMsaIndustryTables ==
    /\ pc = "i_start"
    /\ labor_table' = build_msa_industry_tables(merged_all_ind)
    /\ pc' = "i_done"
    /\ UNCHANGED <<msa_tables_1980, msa_tables_2022, bfi_df, msa_county,
                   final_pop_1980, min_df_2022, indvars, popvars>>
    /\ UNCHANGED <<pipevars, geovars, gdpvars, calls>>

NextInd == BuildMsaIndustryTables

SpecInd == InitInd /\ [][NextInd]_vars

\* the rows of merged_all_ind of one metro and one year
IndRows(msa, y) ==
    SelectSeq(merged_all_ind.rows,
              LAMBDA r : r.metro_title = msa /\ r.year = y)

IndYears(msa) ==
    {r.year : r \in {q \in Range(merged_all_ind.rows) : q.metro_title = msa}}

\* numerator and denominator of the value of a metric at a year: the sum over
\* the rows, the mean for the weekly wage
IndNum(msa, y, c) == SumSeq(MapSeq(IndRows(msa, y), LAMBDA r : r[c]))

IndDen(msa, y, c) ==
    IF c = "annual_avg_wkly_wage" THEN Len(IndRows(msa, y)) ELSE 1

\* C21: the table of a metro has the years of the metro as its columns, a
\* "% Change" column exactly when the metro has two distinct years or more,
\* and that column is, for each metric with a non-zero earliest value, the
\* hundredth nearest to (latest - earliest) / earliest * 100.
C21_PercentChangeColumn ==
    (pc = "i_done" /\ Range(required_cols) \subseteq Columns(merged_all_ind)) =>
        /\ DOMAIN labor_table =
              {r.metro_title : r \in Range(merged_all_ind.rows)}
        /\ \A msa \in DOMAIN labor_table :
              LET t == labor_table[msa]
                  ys == IndYears(msa)
                  y0 == CHOOSE y \in ys : \A z \in ys : y <= z
                  y1 == CHOOSE y \in ys : \A z \in ys : y >= z
              IN  /\ Range(t.years) = ys
                  /\ Len(t.years) = Cardinality(ys)
                  /\ (Len(t.pct) = 1) <=> (Cardinality(ys) >= 2)
                  /\ Len(t.pct) <= 1
                  /\ \A c \in Range(metric_cols) :
                        (Len(t.pct) = 1 /\ IndNum(msa, y0, c) # 0) =>
                            LET n0 == IndNum(msa, y0, c)
                                d0 == IndDen(msa, y0, c)
                                n1 == IndNum(msa, y1, c)
                                d1 == IndDen(msa, y1, c)
                                diff == t.pct[1][c] * n0 * d1
                                          - (n1 * d0 - n0 * d1) * 10000
                            IN  /\ 2 * diff <= n0 * d1
                                /\ 2 * diff >= 0 - n0 * d1

\* Akron with two county rows in 1980 and one row in 2022: employment went from
\* 150 to 200 (33.33 %), the mean weekly wage from 11.5 to 15 (30.43 %)
C21_Witness ==
    /\ pc = "i_done"
    /\ "Akron" \in DOMAIN labor_table
    /\ labor_table["Akron"].years = <<1980, 2022>>
    /\ Len(IndRows("Akron", 1980)) = 2
    /\ Len(labor_table["Akron"].pct) = 1
    /\ labor_table["Akron"].pct[1]["annual_avg_emplvl"] = 3333
    /\ labor_table["Akron"].pct[1]["annual_avg_wkly_wage"] = 3043

\* the requested years: the answer holds a row, with a value or with "(NA)",
\* for every metro and every requested year
RequestedYears ==
    SelectSeq(YearNames, LAMBDA y :
        \E i \in 1..Len(gdp_data.Data) : gdp_data.Data[i].TimePeriod = y)

\* the downloaded level of metro k in year y
RawLevel(k, y) ==
    LET m == SelectSeq(gdp_data.Data,
                       LAMBDA r : r.GeoFips = k /\ r.TimePeriod = y)
    IN  IF Len(m) = 0 THEN NaN ELSE DataValueOf(m[1].DataValue)

\* C24: the result has a column for every requested year but the first, and
\* the value of year Y is the change from the level of year Y - 1 (NaN where
\* one of the two levels is missing).
C24_RelativeToPrecedingYear ==
    (pc = "gdp_done" /\ gdp_df # None) =>
        /\ gdp_df.cols = <<"GeoFips", "GeoName">> \o Tail(RequestedYears)
        /\ \A j \in 1..Len(gdp_df.rows), i \in 2..Len(RequestedYears) :
              RequestedYears[i] \in Columns(gdp_df) =>
                  LET k == gdp_df.rows[j].GeoFips
                      curr == RawLevel(k, RequestedYears[i])
                      prev == RawLevel(k, RequestedYears[i - 1])
                  IN  gdp_df.rows[j][RequestedYears[i]] =
                         IF curr = NaN \/ prev = NaN THEN NaN
                         ELSE RoundSigned((curr - prev) * 1000, prev)

(***************************************************************************)
(* src/dataprep.py, part 1: the script converts the two shapefiles, clips  *)
(* the states, writes the combined file and deletes its intermediate       *)
(* files.  It has no try: an exception ends the script.                    *)
(***************************************************************************)
InitScript ==
    /\ pc = "s_inputs"
    /\ bfi_df = None
    /\ msa_county = None
    /\ labor = None
    /\ all_ind = None
    /\ final_pop_1980 = None
    /\ min_df_2022 = None
    /\ merged_all_ind = None
    /\ new_bfi_df = None
    /\ NoTables
    /\ pop_1980 = None
    /\ msa_pop_1980 = None
    /\ merged_pop_1980 = None
    /\ pop_1980_agg = None
    /\ pop_2022 = None
    /\ merged_pop_2022 = None
    /\ NoPipeline
    /\ NoGeo
    /\ NoGdp
    /\ NoCalls

\* the extracted shapefile distributions and df_long = datadf.melt(...)
ScriptInputs ==
    /\ pc = "s_inputs"
    /\ df_long' \in SUBSET DataMetros
    /\ \E c \in Pick(MsaCands, MaxMsaFeatures),
          s \in Pick(StateCands, MaxStateFeatures) :
          shp_dirs' = [cbsa |-> c, states |-> s]
    /\ geo_run' = 1
    /\ pc' = "s_convert"
    /\ UNCHANGED <<msa_path, states_path, clipped_states_path, combined_path,
                   clipped_states_keep, geo_failed, geo_err, geo_wrote,
                   prev_combined, datavars, pipevars>>

\* for key, d in shp_dirs.items(): a directory without .shp is skipped, an
\* exception of read_file or to_file ends the script
ScriptConvert ==
    /\ pc = "s_convert"
    /\ \E c, s \in {"ok", "no_shp", "unreadable"} :
          /\ msa_path' = convert_one(msa_path, shp_dirs.cbsa, c)
          /\ states_path' =
                IF c = "unreadable" THEN states_path
                ELSE convert_one(states_path, shp_dirs.states, s)
          /\ geo_err' = ("unreadable" \in {c, s})
          /\ pc' = IF geo_err' THEN "s_died" ELSE "s_clip"
    /\ UNCHANGED <<df_long, clipped_states_path, combined_path, shp_dirs,
                   clipped_states_keep, geo_run, geo_failed, geo_wrote,
                   prev_combined, datavars, pipevars>>

\* gpd.read_file of both files, the filter on the metros with data,
\* gdf_states.overlay(gdf_msas_data, how="difference"), to_file
ScriptClipStates ==
    /\ pc = "s_clip"
    /\ IF msa_path = NoFile \/ states_path = NoFile
       THEN /\ geo_err' = TRUE
            /\ pc' = "s_died"
            /\ UNCHANGED clipped_states_path
       ELSE /\ clipped_states_path' = FeatureCollection(
                   overlay_difference(states_path.features,
                       gdf_msas_filtered(msa_path.features, df_long)))
            /\ pc' = "s_combine"
            /\ UNCHANGED geo_err
    /\ UNCHANGED <<df_long, msa_path, states_path, combined_path, shp_dirs,
                   clipped_states_keep, geo_run, geo_failed, geo_wrote,
                   prev_combined, datavars, pipevars>>

\* json.load(msa_path), json.load(states_path), region_id, json.dump of the
\* combined collection
ScriptCombine ==
    /\ pc = "s_combine"
    /\ combined_path' = json_dump(combined_path,
           combined_geo(msa_path.features, states_path.features))
    /\ geo_wrote' = TRUE
    /\ pc' = "s_cleanup"
    /\ UNCHANGED <<df_long, msa_path, states_path, clipped_states_path,
                   shp_dirs, clipped_states_keep, geo_run, geo_failed,
                   geo_err, prev_combined, datavars, pipevars>>

\* shutil.rmtree of the extracted folders, unlink of the three intermediate
\* files
ScriptCleanup ==
    /\ pc = "s_cleanup"
    /\ shp_dirs' = [cbsa |-> <<>>, states |-> <<>>]
    /\ clipped_states_path' = NoFile
    /\ msa_path' = NoFile
    /\ states_path' = NoFile
    /\ pc' = "s_done"
    /\ UNCHANGED <<df_long, combined_path, clipped_states_keep, geo_run,
                   geo_failed, geo_err, geo_wrote, prev_combined, datavars,
                   pipevars>>

NextScript ==
    \/ ScriptInputs
    \/ ScriptConvert
    \/ ScriptClipStates
    \/ ScriptCombine
    \/ ScriptCleanup

SpecScript == InitScript /\ [][NextScript]_vars

\* the state features of a combined collection
StateFeaturesOf(fs) == SelectSeq(fs, LAMBDA f : "STATEFP" \in DOMAIN f)

\* C27: the state features the script has written to the combined file are
\* the features of the clipped states file, with their region_id.
C27_ClippedStatesInCombined ==
    pc = "s_cleanup" =>
        StateFeaturesOf(combined_path.features)
            = MapSeq(clipped_states_path.features, state_region_id)

(***************************************************************************)
(* dataprep_utils.py: merge_healthcare_with_gdp on the healthcare file     *)
(* (bfi_df) and the GDP file (gdp_file)                                    *)
(***************************************************************************)
MaxGdpFileRows == 2

growth_cols == <<"gdp_growth_2019_percent", "gdp_growth_2020_percent",
                 "gdp_growth_2021_percent", "gdp_growth_2022_percent",
                 "gdp_growth_2023_percent">>

GdpFileYears == <<"2019", "2020", "2021", "2022", "2023">>

\* rows of the GDP file: the percent changes of one metro, in tenths
GdpFileRow(code, name, v) ==
    [c \in {"GeoFips", "GeoName"} \cup Range(GdpFileYears) |->
        IF c = "GeoFips" THEN code ELSE IF c = "GeoName" THEN name ELSE v]

GdpFileCands == <<GdpFileRow(T10420, "Akron", 10),
                  GdpFileRow(T12060, "Atlanta", 20),
                  GdpFileRow(T55555, "Elsewhere", 30),
                  GdpFileRow(TBad, "Unknown", 40),
                  GdpFileRow(<<"0">> \o T10420, "Akron, OH", 50)>>

GdpFileCols == <<"GeoFips", "GeoName">> \o GdpFileYears

\* gdp.rename(columns={"2019": "gdp_growth_2019_percent", ...})
rename_gdp(gdp) ==
    LET new(c) == IF \E i \in 1..Len(GdpFileYears) : GdpFileYears[i] = c
                  THEN growth_cols[CHOOSE i \in 1..Len(GdpFileYears) :
                                       GdpFileYears[i] = c]
                  ELSE c
    IN  Table(MapSeq(gdp.cols, new),
              MapSeq(gdp.rows, LAMBDA r :
                  [c \in {new(d) : d \in DOMAIN r} |->
                      r[CHOOSE d \in DOMAIN r : new(d) = c]]))

\* merge_healthcare_with_gdp: None when a file or a column is missing (the
\* KeyError is caught); both keys through to_numeric(errors="coerce"), isin,
\* left merge.  isin and merge take NaN for equal to NaN.
merge_healthcare_with_gdp(rise, gdp) ==
    IF rise = NoFile \/ gdp = NoFile THEN None
    ELSE IF "metro13" \notin Columns(rise) \/ "GeoFips" \notin Columns(gdp)
    THEN None
    ELSE IF ~(Range(GdpFileYears) \subseteq Columns(gdp)) THEN None
    ELSE
      LET rise_n == SetCol(rise, "metro13", LAMBDA r : to_numeric(r.metro13))
          gdp_n == SetCol(gdp, "GeoFips", LAMBDA r : to_numeric(r.GeoFips))
          kept == Filter(rise_n, LAMBDA r :
                      \E g \in Range(gdp_n.rows) : g.GeoFips = r.metro13)
      IN  Drop(Merge(kept,
                     Project(rename_gdp(gdp_n), <<"GeoFips">> \o growth_cols),
                     <<"metro13">>, <<"GeoFips">>, "left"),
               {"GeoFips"})

InitMerge ==
    /\ pc = "m_files"
    /\ bfi_df = None
    /\ msa_county = None
    /\ labor = None
    /\ all_ind = None
    /\ final_pop_1980 = None
    /\ min_df_2022 = None
    /\ merged_all_ind = None
    /\ new_bfi_df = None
    /\ NoTables
    /\ pop_1980 = None
    /\ msa_pop_1980 = None
    /\ merged_pop_1980 = None
    /\ pop_1980_agg = None
    /\ pop_2022 = None
    /\ merged_pop_2022 = None
    /\ NoPipeline
    /\ NoGeo
    /\ NoGdp
    /\ NoCalls

\* the healthcare file and the GDP file on disk when the function is called:
\* the GDP file may lack the year 2023, either file may be missing
MergeFiles ==
    /\ pc = "m_files"
    /\ bfi_df' \in Tables(BfiCols, BfiCands, MaxBfiRows) \cup {NoFile}
    /\ gdp_file' \in Tables(GdpFileCols, GdpFileCands, MaxGdpFileRows)
                       \cup Without(GdpFileCols, GdpFileCands, "2023")
                       \cup {NoFile}
    /\ pc' = "m_merge"
    /\ UNCHANGED <<gdp_data, gdp_df, gdp_merged, msa_county, labor, all_ind,
                   final_pop_1980, min_df_2022, merged_all_ind, new_bfi_df,
                   popvars, tabvars, pipevars, geovars, calls>>

\* merge_healthcare_with_gdp(healthcare_path, gdp_path, output_path)
MergeHealthcareWithGdp ==
    /\ pc = "m_merge"
    /\ gdp_merged' = merge_healthcare_with_gdp(bfi_df, gdp_file)
    /\ pc' = "m_done"
    /\ UNCHANGED <<gdp_data, gdp_df, gdp_file, bfi_df, msa_county, labor,
                   all_ind, final_pop_1980, min_df_2022, merged_all_ind,
                   new_bfi_df, popvars, tabvars, pipevars, geovars, calls>>

NextMerge ==
    \/ MergeFiles
    \/ MergeHealthcareWithGdp

SpecMerge == InitMerge /\ [][NextMerge]_vars

\* the numbers of the GeoFips cells that parse
ParseableCodes ==
    {to_numeric(g.GeoFips) : g \in Range(gdp_file.rows)} \ {NA}

\* the base rows whose metro13 is the code of a GDP row with a parseable code
MatchedBase ==
    SelectSeq(bfi_df.rows, LAMBDA r : to_numeric(r.metro13) \in ParseableCodes)

DistinctGeoFips ==
    \A i, j \in 1..Len(gdp_file.rows) :
        gdp_file.rows[i].GeoFips = gdp_file.rows[j].GeoFips => i = j

\* C28: the result holds the base rows whose metro13 is the GeoFips of a GDP
\* row with a parseable code and no other row, each of them once when the
\* GeoFips values of the GDP file are distinct.
C28_MatchedBaseRowsOnly ==
    (pc = "m_done" /\ gdp_merged # None) =>
        /\ \A m \in Range(gdp_merged.rows) :
              \E r \in Range(MatchedBase) :
                  /\ to_numeric(r.metro13) = m.metro13
                  /\ r.metro_title = m.metro_title
        /\ \A r \in Range(MatchedBase) :
              \E m \in Range(gdp_merged.rows) :
                  /\ to_numeric(r.metro13) = m.metro13
                  /\ r.metro_title = m.metro_title
        /\ DistinctGeoFips => Len(gdp_merged.rows) = Len(MatchedBase)

====
